---- MODULE Spec2Model ----
(***************************************************************************)
(* Session state machine of the film recommendation bot                    *)
(* (src/handlers.py), with the text classification it depends on          *)
(* (src/movie_search.py).                                                  *)
(*                                                                         *)
(* One conversation is modelled: python-telegram-bot keeps one user_data   *)
(* dict per user and dispatches updates one at a time, so handlers never   *)
(* overlap each other.  Prefetch tasks (asyncio.create_task) and rating    *)
(* jobs (job_queue.run_once) run on the same event loop and interleave     *)
(* with the handlers at their await points.                                *)
(***************************************************************************)
EXTENDS Integers, Sequences, FiniteSets, TLC

(***************************************************************************)
(* Bounds of the model.                                                    *)
(***************************************************************************)
MaxId == 2          \* catalog ids are 1..MaxId

Ids == 1..MaxId

(***************************************************************************)
(* Strings are sequences of one-character strings, so that lower(),        *)
(* strip() and the substring tests of the source are computed.             *)
(***************************************************************************)
UpperChars == <<"A", "B", "C", "D", "E", "F", "G", "H", "I", "J", "K", "L", "M",
                "N", "O", "P", "Q", "R", "S", "T", "U", "V", "W", "X", "Y", "Z">>
LowerChars == <<"a", "b", "c", "d", "e", "f", "g", "h", "i", "j", "k", "l", "m",
                "n", "o", "p", "q", "r", "s", "t", "u", "v", "w", "x", "y", "z">>

\* str.lower() on one character
LowerChar(c) ==
    IF \E i \in 1..26 : UpperChars[i] = c
    THEN LowerChars[CHOOSE i \in 1..26 : UpperChars[i] = c]
    ELSE c

\* str.lower()
Lower(s) == [i \in 1..Len(s) |-> LowerChar(s[i])]

IsSpace(c) == c = " "

\* str.strip(): drop leading and trailing whitespace
Strip(s) ==
    IF \A i \in 1..Len(s) : IsSpace(s[i])
    THEN << >>
    ELSE LET first == CHOOSE i \in 1..Len(s) :
                          /\ ~IsSpace(s[i])
                          /\ \A j \in 1..(i - 1) : IsSpace(s[j])
             last  == CHOOSE i \in 1..Len(s) :
                          /\ ~IsSpace(s[i])
                          /\ \A j \in (i + 1)..Len(s) : IsSpace(s[j])
         IN  SubSeq(s, first, last)

\* w occurs in s at position i
At(s, i, w) ==
    /\ i >= 1
    /\ i + Len(w) - 1 <= Len(s)
    /\ SubSeq(s, i, i + Len(w) - 1) = w

\* the Python test `w in s` on strings
Contains(s, w) == \E i \in 1..(Len(s) + 1) : At(s, i, w)

IsLetter(c) == \E i \in 1..26 : LowerChars[i] = LowerChar(c)

\* a run of one or more whitespace characters s[i..j]  (regex \s+)
WsRun(s, i, j) == i <= j /\ j <= Len(s) /\ \A k \in i..j : IsSpace(s[k])

\* a run of two or more letters s[i..j]  (regex [A-Z][a-z]+ under IGNORECASE)
NameRun(s, i, j) == i >= 1 /\ i < j /\ j <= Len(s) /\ \A k \in i..j : IsLetter(s[k])

W_with == <<"w", "i", "t", "h">>
W_wth == <<"w", "t", "h">>
W_starring == <<"s", "t", "a", "r", "r", "i", "n", "g">>
W_featuring == <<"f", "e", "a", "t", "u", "r", "i", "n", "g">>
W_actor == <<"a", "c", "t", "o", "r">>
W_actress == <<"a", "c", "t", "r", "e", "s", "s">>
W_by == <<"b", "y">>
W_films == <<"f", "i", "l", "m", "s">>
W_movies == <<"m", "o", "v", "i", "e", "s">>
W_film == <<"f", "i", "l", "m">>
W_movie == <<"m", "o", "v", "i", "e">>
W_christmas == <<"c", "h", "r", "i", "s", "t", "m", "a", "s">>
W_xmas == <<"x", "m", "a", "s">>
W_holiday == <<"h", "o", "l", "i", "d", "a", "y">>
W_pitt == <<"p", "i", "t", "t">>
W_statham == <<"s", "t", "a", "t", "h", "a", "m">>
W_stathem == <<"s", "t", "a", "t", "h", "e", "m">>
W_hanks == <<"h", "a", "n", "k", "s">>
W_dicaprio == <<"d", "i", "c", "a", "p", "r", "i", "o">>
W_cruise == <<"c", "r", "u", "i", "s", "e">>
W_damon == <<"d", "a", "m", "o", "n">>
W_affleck == <<"a", "f", "f", "l", "e", "c", "k">>
W_smith == <<"s", "m", "i", "t", "h">>
W_reeves == <<"r", "e", "e", "v", "e", "s">>
W_jolie == <<"j", "o", "l", "i", "e">>
W_depp == <<"d", "e", "p", "p">>
W_bale == <<"b", "a", "l", "e">>
W_hiddleston == <<"h", "i", "d", "d", "l", "e", "s", "t", "o", "n">>

actor_keywords == {W_with, W_wth, W_starring, W_featuring, W_actor, W_actress, W_by}

known_actor_names == {W_pitt, W_statham, W_stathem, W_hanks, W_dicaprio, W_cruise,
                      W_damon, W_affleck, W_smith, W_reeves, W_jolie, W_depp,
                      W_bale, W_hiddleston}

holiday_keywords == {W_christmas, W_xmas, W_holiday}

\* r"films?\s+(?:with\s+|wth\s+|starring\s+)?([A-Z][a-z]+(?:\s+[A-Z][a-z]+)?)"
\* searched with IGNORECASE.  The optional group starts with two letters
\* itself, so the pattern matches exactly where "film" or "films" is followed
\* by whitespace and two letters.
actor_name_pattern_1(q) ==
    LET l == Lower(q) IN
    \E i \in 1..Len(q) :
        /\ At(l, i, W_film)
        /\ \E e \in {i + 4} \cup (IF At(l, i, W_films) THEN {i + 5} ELSE {}) :
             \E j \in e..Len(q) :
                /\ WsRun(q, e, j)
                /\ NameRun(q, j + 1, j + 2)

\* r"([A-Z][a-z]+\s+[A-Z][a-z]+)\s+films?" (w = "film") and
\* r"([A-Z][a-z]+\s+[A-Z][a-z]+)\s+movies?" (w = "movie"), with IGNORECASE
actor_name_pattern_2(q, w) ==
    LET l == Lower(q) IN
    \E p \in 1..Len(q) :
        /\ At(l, p, w)
        /\ \E d \in 1..(p - 1) :
             /\ WsRun(q, d + 1, p - 1)
             /\ \E c \in 1..d :
                  /\ NameRun(q, c + 1, d)
                  /\ \E b \in 1..c :
                       /\ WsRun(q, b + 1, c)
                       /\ NameRun(q, b - 1, b)

\* is_actor_query: the early `return True` of the source (a capitalised word
\* next to an actor keyword) is subsumed by the final expression, whose first
\* disjunct is has_actor_keyword.
is_actor_query(q) ==
    LET query_lower == Lower(q)
        has_actor_keyword == \E kw \in actor_keywords : Contains(query_lower, kw)
        has_known_actor == \E name \in known_actor_names : Contains(query_lower, name)
        has_actor_name_pattern ==
            \/ actor_name_pattern_1(q)
            \/ actor_name_pattern_2(q, W_film)
            \/ actor_name_pattern_2(q, W_movie)
    IN  \/ has_actor_keyword
        \/ /\ Contains(query_lower, W_films) \/ Contains(query_lower, W_movies)
           /\ has_known_actor \/ has_actor_name_pattern

\* any(kw in user_message.lower() for kw in ["christmas", "xmas", "holiday"])
is_christmas(q) == \E kw \in holiday_keywords : Contains(Lower(q), kw)

(***************************************************************************)
(* The texts a user sends in the model.  A prompt is held in the state as  *)
(* an index into Texts; index 0 is the empty string that                   *)
(* user_data.get("original_prompt", "") yields before the first message.   *)
(***************************************************************************)
Texts == <<
    <<"f", "i", "l", "m", "s", " ", "w", "i", "t", "h", " ", "B", "r", "a", "d", " ", "P", "i", "t", "t">>,
    <<"c", "o", "m", "e", "d", "y">>,
    <<"C", "o", "m", "e", "d", "y", " ">> >>

TextIds == 1..Len(Texts)

TextOf(t) == IF t = 0 THEN << >> ELSE Texts[t]

\* s.lower().strip(), tabulated once per text
NormTable == [t \in 0..Len(Texts) |-> Strip(Lower(TextOf(t)))]

ActorTexts == {t \in TextIds : is_actor_query(Texts[t])}

ChristmasTexts == {t \in TextIds : is_christmas(Texts[t])}

\* the comparison without lower() and strip()
is_new_query_exact(old_prompt, user_message) == old_prompt # user_message

\* old_prompt.lower().strip() != user_message.lower().strip()
is_new_query(old_prompt, user_message) == NormTable[old_prompt] # NormTable[user_message]


(***************************************************************************)
(* State.                                                                  *)
(*   original_prompt, movie_queue, suggested_movies, prefetched_next_movie,*)
(*   prefetched_query and watching are the entries of context.user_data.   *)
(*   A movie is represented by its catalog id.  suggested_movies is a      *)
(*   Python list that is only appended to and tested for membership; it is *)
(*   held as the set of its elements.  prefetched_next_movie = 0 stands    *)
(*   for None or an absent key, prefetched_query = 0 likewise.             *)
(*   watching holds the ids m for which the key watching_movie_<m> exists. *)
(*   tasks holds the prefetch tasks in flight and jobs the rating jobs     *)
(*   pending.  Tasks (jobs) that agree in every component are held once    *)
(*   and finish in one step: of tasks that finish back to back the last    *)
(*   store is the one that stays.                                          *)
(*   pc and user_message are the position and the argument of the          *)
(*   handle_message call in progress.                                      *)
(* History variables, read by the properties only:                         *)
(*   buttons / rate_prompts: ids for which an offer keyboard / a rating    *)
(*   keyboard has been sent to the chat (a keyboard stays usable: the edit *)
(*   that would remove it fails on photo messages, and a second press can  *)
(*   be queued before the edit); prefetched_stale: the prefetch slot was   *)
(*   filled by a task created before the latest reset; the stale component *)
(*   of a task and the state component of a job; out: what the last step   *)
(*   did.                                                                  *)
(***************************************************************************)
VARIABLES original_prompt, movie_queue, suggested_movies,
          prefetched_next_movie, prefetched_query, watching,
          tasks, jobs, pc, user_message,
          buttons, rate_prompts, prefetched_stale, out

\* The state of the components that are modelled on their own, outside the
\* session: the detail cache (_movie_cache of cache.py, held as the list of
\* its keys in dict order) with the record of the last cache operation.
VARIABLES movie_cache, cache_op

\* A function of movie_search.py, utils.py or tmdb_client.py that is studied
\* on its own: the arguments of its last call and what the call returned.
VARIABLES args, result

session_vars == <<original_prompt, movie_queue, suggested_movies,
                  prefetched_next_movie, prefetched_query, watching,
                  tasks, jobs, pc, user_message,
                  buttons, rate_prompts, prefetched_stale, out>>

\* the asyncio tasks that use the cache: the holder of _cache_lock (0 when
\* it is free) and where each task stands
VARIABLES cache_lock, cache_tasks

task_vars == <<cache_lock, cache_tasks>>

\* what a step of the session leaves alone: in Spec and SpecWatch a
\* retrieval is taken by its result, not by the calls it makes
component_vars == <<movie_cache, cache_op, args, result, task_vars>>

\* no task uses the cache
TasksIdle == cache_lock = 0 /\ cache_tasks = << >>

vars == <<session_vars, component_vars>>

\* a prefetch task: the prompt it read when it started, and whether a reset
\* has happened since
TaskKeys == [prompt : TextIds, stale : BOOLEAN]

\* a rating job: its movie, and whether a rating of that movie was submitted
\* since the Accept that scheduled it ("fresh": none, "rated": one was)
JobKeys == [movie : Ids, state : {"fresh", "rated"}]

Out(kind, movie, offers, calls, msgs, note) ==
    [kind |-> kind, movie |-> movie, offers |-> offers, calls |-> calls,
     msgs |-> msgs, note |-> note]

Offer(id, src) == [id |-> id, src |-> src]

\* the lists of distinct elements of S, of length at most n
ListsOf(S, n) ==
    {s \in UNION {[1..k -> S] : k \in 0..n} :
        \A i, j \in 1..Len(s) : s[i] = s[j] => i = j}

Range(s) == {s[i] : i \in 1..Len(s)}

\* [x for x in s if x in keep]
RECURSIVE SelectIds(_, _)
SelectIds(s, keep) ==
    IF s = << >> THEN << >>
    ELSE IF Head(s) \in keep
         THEN <<Head(s)>> \o SelectIds(Tail(s), keep)
         ELSE SelectIds(Tail(s), keep)

\* the components before their first operation
ComponentInit ==
    /\ movie_cache = << >>
    /\ cache_op = [op |-> "none", key |-> 0]
    /\ TasksIdle
    /\ args = [fn |-> "none"]
    /\ result = [status |-> "none"]

\* a chat before its first message
SessionInit ==
    /\ original_prompt = 0
    /\ movie_queue = << >>
    /\ suggested_movies = {}
    /\ prefetched_next_movie = 0
    /\ prefetched_query = 0
    /\ watching = {}
    /\ tasks = {}
    /\ jobs = {}
    /\ pc = "idle"
    /\ user_message = 0
    /\ buttons = {}
    /\ rate_prompts = {}
    /\ prefetched_stale = FALSE
    /\ out = Out("init", 0, << >>, {}, << >>, "")

Init == SessionInit /\ ComponentInit

(***************************************************************************)
(* The collaborators.  Each operator is the set of results the call can    *)
(* return; << >> stands for None or an empty list.                         *)
(***************************************************************************)

\* fast_movie_search(query, user_id, excluded_ids): None, or a list whose
\* head is the best candidate.  Every strategy drops the ids of excluded_ids
\* (search_actor_movies and discover_trending_movies when they retrieve, the
\* history filter for all of them).  Alternates follow the head only for a
\* person query.  The catalog is taken to list a movie once.
fast_movie_search(query, excluded_ids) ==
    {s \in ListsOf(Ids \ excluded_ids, MaxId) :
        Len(s) > 1 => query \in ActorTexts}

\* discover_trending_movies(genre_ids, excluded_ids) followed by
\* fetch_poster_and_verify_movie on results[0]: the handlers read only the
\* first result, and a first result that fails the check has the effect of
\* an empty list.
discover_trending_movies(excluded_ids) == ListsOf(Ids \ excluded_ids, 1)

\* the movies of an agent answer that pass the detail and quality checks of
\* handle_message (valid_movies); the agent chooses the ids.
agent_valid_movies == ListsOf(Ids, MaxId)

(***************************************************************************)
(* send_movie_suggestion: the message with its buttons is sent and a       *)
(* prefetch task is created, which reads original_prompt when it starts.   *)
(* The task is recorded when track_tasks holds: a specification without a  *)
(* step of prefetch_next_movie reads tasks nowhere and leaves them out.    *)
(***************************************************************************)
send_movie_suggestion(movie, track_tasks) ==
    /\ buttons' = buttons \cup {movie}
    /\ tasks' = IF track_tasks
                THEN tasks \cup {[prompt |-> original_prompt, stale |-> FALSE]}
                ELSE tasks

(***************************************************************************)
(* handle_message, first part: the reset on a new query and the store of   *)
(* the prompt.  The await between them changes nothing a task reads.       *)
(***************************************************************************)

\* the four assignments under `if is_new_query:`; the tasks in flight become
\* tasks of an earlier session
reset_session ==
    /\ movie_queue' = << >>
    /\ prefetched_next_movie' = 0
    /\ prefetched_query' = 0
    /\ suggested_movies' = {}
    /\ prefetched_stale' = FALSE
    /\ tasks' = {[prompt |-> k.prompt, stale |-> TRUE] : k \in tasks}

handle_message_reset ==
    /\ UNCHANGED component_vars
    /\ pc = "idle"
    /\ \E text \in TextIds :
        /\ user_message' = text
        /\ IF is_new_query(original_prompt, text)
           THEN reset_session
           ELSE UNCHANGED <<movie_queue, prefetched_next_movie, prefetched_query,
                            suggested_movies, prefetched_stale, tasks>>
        /\ original_prompt' = text
        /\ out' = Out("reset", 0, << >>, {}, << >>,
                      IF is_new_query(original_prompt, text) THEN "new"
                      ELSE IF text = original_prompt THEN "repeated" ELSE "same")
    /\ pc' = "retrieving"
    /\ UNCHANGED <<watching, jobs, buttons, rate_prompts>>

\* the common tail of the retrieval branches of handle_message:
\* movie_queue = movies; suggested_movies.append(movies[0]["id"]); send
offer_from_message(movies, src, track_tasks) ==
    /\ movie_queue' = movies
    /\ suggested_movies' = suggested_movies \cup {movies[1]}
    /\ send_movie_suggestion(movies[1], track_tasks)
    /\ out' = Out("message", 0, <<Offer(movies[1], src)>>, {}, << >>, "")

(***************************************************************************)
(* handle_message, second part: retrieval and offer.  The branches are the *)
(* returns of the source: fast_movie_search (first for a person query,     *)
(* after a missing or unusable agent answer otherwise), the agent's        *)
(* movies, the discover fallback after a missing agent answer, and the     *)
(* "couldn't find" reply.                                                  *)
(***************************************************************************)
handle_message_retrieve(track_tasks) ==
    /\ UNCHANGED component_vars
    /\ pc = "retrieving"
    /\ pc' = "idle"
    /\ UNCHANGED <<original_prompt, user_message, prefetched_next_movie,
                   prefetched_query, prefetched_stale, watching, jobs, rate_prompts>>
    /\ \/ \E fast_result \in fast_movie_search(user_message, {}) \ {<< >>} :
            offer_from_message(fast_result, "fast", track_tasks)
       \/ \E valid_movies \in agent_valid_movies \ {<< >>} :
            offer_from_message(valid_movies, "agent", track_tasks)
       \/ /\ user_message \notin ChristmasTexts
          /\ \E discover_results \in discover_trending_movies({}) \ {<< >>} :
               /\ movie_queue' = <<discover_results[1]>>
               /\ suggested_movies' = {discover_results[1]}
               /\ send_movie_suggestion(discover_results[1], track_tasks)
               /\ out' = Out("message", 0, <<Offer(discover_results[1], "discover")>>,
                             {}, << >>, "")
       \/ /\ out' = Out("message", 0, << >>, {}, <<"not_found">>, "")
          /\ UNCHANGED <<movie_queue, suggested_movies, buttons, tasks>>

(***************************************************************************)
(* handle_button_callback.                                                 *)
(***************************************************************************)

\* the queue left as it is
remove_current_kept(queue, movie_id) == queue

\* [m for m in movie_queue if str(m.get("id")) != movie_id]
remove_current(queue, movie_id) == SelectIds(queue, Ids \ {movie_id})

\* the queue taken unfiltered
filter_queue_none(queue, suggested) == queue

\* [m for m in movie_queue if m.get("id") not in suggested_movies_set]
filter_queue(queue, suggested) == SelectIds(queue, Ids \ suggested)

\* the tag compared with the prompt as written
prefetch_usable_exact(prefetched_movie, prefetched_q, prompt, suggested) ==
    /\ prefetched_movie # 0
    /\ prefetched_q = prompt
    /\ prefetched_movie \notin suggested

\* prefetched_movie and prefetched_query.lower().strip() ==
\* original_prompt.lower().strip(), then prefetched_id and prefetched_id not
\* in suggested_movies
prefetch_usable(prefetched_movie, prefetched_q, prompt, suggested) ==
    /\ prefetched_movie # 0
    /\ NormTable[prefetched_q] = NormTable[prompt]
    /\ prefetched_movie \notin suggested

\* the discover fallback for every prompt
discover_allowed_always(prompt) == TRUE

\* `if not is_actor_query_btn:` in front of the discover fallback
discover_allowed(prompt) == prompt \notin ActorTexts

\* current_movie is None: the reply and the return.  The reply is made with
\* query.edit_message_text, which the chat refuses for a message that is a
\* photo with a caption (an offer sent with send_photo): the exception goes
\* to the handler's except clause, whose own edit_message_text is refused
\* as well, and nothing reaches the user.
button_not_found(action, movie_id) ==
    /\ \E offer_is_text \in BOOLEAN :
         out' = Out(action, movie_id, << >>, {},
                    IF offer_is_text THEN <<"not_in_queue">> ELSE << >>,
                    IF offer_is_text THEN "" ELSE "edit_refused")
    /\ UNCHANGED <<movie_queue, suggested_movies, prefetched_next_movie,
                   prefetched_query, prefetched_stale, watching, jobs,
                   buttons, tasks>>

\* action == "watch": the marker is written, then job_queue.run_once either
\* schedules the job or raises, which the handler catches; then the common
\* removal from the queue and the append to suggested_movies
handle_button_watch ==
    /\ UNCHANGED component_vars
    /\ pc = "idle"
    /\ UNCHANGED <<pc, user_message, original_prompt, rate_prompts>>
    /\ \E movie_id \in buttons :
         IF movie_id \notin Range(movie_queue)
         THEN button_not_found("watch", movie_id)
         ELSE /\ watching' = watching \cup {movie_id}
              /\ \E scheduled \in BOOLEAN :
                  /\ jobs' = IF scheduled
                             THEN jobs \cup {[movie |-> movie_id, state |-> "fresh"]}
                             ELSE jobs
                  /\ out' = Out("watch", movie_id, << >>, {}, <<"enjoy">>,
                                IF scheduled THEN "scheduled" ELSE "not_scheduled")
              /\ movie_queue' = remove_current(movie_queue, movie_id)
              /\ suggested_movies' = suggested_movies \cup {movie_id}
              /\ UNCHANGED <<prefetched_next_movie, prefetched_query,
                             prefetched_stale, buttons, tasks>>

\* as queue_after_prefetch, with the alternates kept behind the candidate
queue_after_prefetch_kept(queue, prefetched_movie) ==
    <<prefetched_movie>> \o queue

\* context.user_data["movie_queue"] = [prefetched_movie]
queue_after_prefetch(queue, prefetched_movie) == <<prefetched_movie>>

\* action in ["dislike", "watched"]: the removal from the queue, the append
\* to suggested_movies and the four sources of the next candidate.  The two
\* actions differ in the text they save to the long-term memory and in the
\* acknowledgement, not in what they do to the session.
button_reject(movie_id) ==
    LET queue1 == remove_current(movie_queue, movie_id)
        suggested1 == suggested_movies \cup {movie_id}
        filtered_queue == filter_queue(queue1, suggested1)
    IN
    /\ UNCHANGED <<watching, jobs>>
    /\ IF prefetch_usable(prefetched_next_movie, prefetched_query,
                          original_prompt, suggested1)
       THEN /\ prefetched_next_movie' = 0
            /\ prefetched_query' = 0
            /\ prefetched_stale' = FALSE
            /\ suggested_movies' = suggested1 \cup {prefetched_next_movie}
            /\ movie_queue' = queue_after_prefetch(queue1, prefetched_next_movie)
            /\ send_movie_suggestion(prefetched_next_movie, TRUE)
            /\ out' = Out("reject", movie_id,
                          <<Offer(prefetched_next_movie, "prefetch")>>, {},
                          <<"noted">>,
                          IF queue1 # << >> THEN "alternates_waiting" ELSE "")
       ELSE
       /\ UNCHANGED <<prefetched_next_movie, prefetched_query, prefetched_stale>>
       /\ IF filtered_queue # << >>
          THEN /\ movie_queue' = filtered_queue
               /\ suggested_movies' = suggested1
               /\ send_movie_suggestion(filtered_queue[1], TRUE)
               /\ out' = Out("reject", movie_id,
                             <<Offer(filtered_queue[1], "queue")>>, {},
                             <<"noted">>, "")
          ELSE
          \E fast_result \in fast_movie_search(original_prompt, suggested1) :
            IF fast_result # << >>
            THEN /\ movie_queue' = fast_result
                 /\ suggested_movies' = suggested1 \cup {fast_result[1]}
                 /\ send_movie_suggestion(fast_result[1], TRUE)
                 /\ out' = Out("reject", movie_id,
                               <<Offer(fast_result[1], "fast")>>, {"fast"},
                               <<"noted">>, "")
            ELSE
            IF discover_allowed(original_prompt)
            THEN \E discover_results \in discover_trending_movies(suggested1) :
                   IF discover_results # << >>
                   THEN /\ movie_queue' = <<discover_results[1]>>
                        /\ suggested_movies' = suggested1 \cup {discover_results[1]}
                        /\ send_movie_suggestion(discover_results[1], TRUE)
                        /\ out' = Out("reject", movie_id,
                                      <<Offer(discover_results[1], "discover")>>,
                                      {"fast", "discover"}, <<"noted">>, "")
                   ELSE /\ movie_queue' = queue1
                        /\ suggested_movies' = suggested1
                        /\ out' = Out("reject", movie_id, << >>, {"fast", "discover"},
                                      <<"noted", "no_more">>, "")
                        /\ UNCHANGED <<buttons, tasks>>
            ELSE /\ movie_queue' = queue1
                 /\ suggested_movies' = suggested1
                 /\ out' = Out("reject", movie_id, << >>, {"fast"},
                               <<"noted", "no_more">>, "")
                 /\ UNCHANGED <<buttons, tasks>>

handle_button_reject ==
    /\ UNCHANGED component_vars
    /\ pc = "idle"
    /\ UNCHANGED <<pc, user_message, original_prompt, rate_prompts>>
    /\ \E movie_id \in buttons :
         IF movie_id \notin Range(movie_queue)
         THEN button_not_found("reject", movie_id)
         ELSE button_reject(movie_id)

(***************************************************************************)
(* prefetch_next_movie: a task in flight completes.  It read               *)
(* original_prompt when it started, which is before the next handler       *)
(* stores a prompt, so a task carries the prompt of the offer that created *)
(* it.  It either stores a verified movie of the agent's choosing with     *)
(* that prompt, or stores nothing.                                         *)
(***************************************************************************)
\* as prefetch_tag, with the prompt read when the candidate is stored
prefetch_tag_at_store(task_prompt, active_prompt) == active_prompt

\* context.user_data["prefetched_query"] = original_prompt, the local
\* variable the task set from user_data in its first statement
prefetch_tag(task_prompt, active_prompt) == task_prompt

prefetch_next_movie ==
    /\ UNCHANGED component_vars
    /\ \E task \in tasks :
        /\ tasks' = tasks \ {task}
        /\ \/ \E movie \in Ids :
                /\ prefetched_next_movie' = movie
                /\ prefetched_query' = prefetch_tag(task.prompt, original_prompt)
                /\ prefetched_stale' = task.stale
           \/ UNCHANGED <<prefetched_next_movie, prefetched_query, prefetched_stale>>
    /\ out' = Out("prefetch", 0, << >>, {}, << >>, "")
    /\ UNCHANGED <<original_prompt, movie_queue, suggested_movies, watching, jobs,
                   pc, user_message, buttons, rate_prompts>>

(***************************************************************************)
(* handle_rating_callback: a press on a button of a rating prompt.         *)
(***************************************************************************)
\* as clear_marker, with every marker deleted
clear_marker_all(markers, movie_id) == {}

\* "if watching_key in context.user_data: del context.user_data[watching_key]"
clear_marker(markers, movie_id) == markers \ {movie_id}

handle_rating_callback ==
    /\ UNCHANGED component_vars
    /\ pc = "idle"
    /\ \E movie_id \in rate_prompts :
        /\ watching' = clear_marker(watching, movie_id)
        /\ jobs' = {IF k.movie = movie_id
                    THEN [movie |-> movie_id, state |-> "rated"] ELSE k : k \in jobs}
        /\ out' = Out("rate", movie_id, << >>, {}, <<"thanks">>, "")
    /\ UNCHANGED <<original_prompt, movie_queue, suggested_movies,
                   prefetched_next_movie, prefetched_query, prefetched_stale,
                   tasks, pc, user_message, buttons, rate_prompts>>

(***************************************************************************)
(* ask_for_rating: a scheduled job fires.                                  *)
(***************************************************************************)

\* if watching_key in context.user_data
job_sends(movie_id, markers) == movie_id \in markers

ask_for_rating ==
    /\ UNCHANGED component_vars
    /\ \E job \in jobs :
        /\ jobs' = jobs \ {job}
        /\ IF job_sends(job.movie, watching)
           THEN /\ rate_prompts' = rate_prompts \cup {job.movie}
                /\ out' = Out("job", job.movie, << >>, {}, <<"rate_prompt">>, job.state)
           ELSE /\ rate_prompts' = rate_prompts
                /\ out' = Out("job", job.movie, << >>, {}, << >>, job.state)
    /\ UNCHANGED <<original_prompt, movie_queue, suggested_movies,
                   prefetched_next_movie, prefetched_query, prefetched_stale,
                   watching, tasks, pc, user_message, buttons>>

(***************************************************************************)
(* Spec: messages, Reject and prefetch, the session of candidates.         *)
(* SpecWatch: messages, Accept, rating submits and rating jobs.            *)
(* A Reject that finds no next candidate leaves the queue and the excluded *)
(* set as an Accept does, so Spec reaches every queue, excluded set and    *)
(* prefetch slot that the handlers together reach.                         *)
(***************************************************************************)
Next ==
    \/ handle_message_reset
    \/ handle_message_retrieve(TRUE)
    \/ handle_button_reject
    \/ prefetch_next_movie

Spec == Init /\ [][Next]_vars

NextWatch ==
    \/ handle_message_reset
    \/ handle_message_retrieve(FALSE)
    \/ handle_button_watch
    \/ handle_rating_callback
    \/ ask_for_rating

SpecWatch == Init /\ [][NextWatch]_vars

(***************************************************************************)
(* Properties.  They read the steps through out, the record of what the    *)
(* last step did, and restate the conditions of the source in their own    *)
(* terms.                                                                  *)
(***************************************************************************)

\* the id of the candidate the last step offered, 0 when it offered none
OfferedId(o) == IF o.offers = << >> THEN 0 ELSE o.offers[1].id

\* the source of the candidate the last step offered
OfferedSrc(o) == IF o.offers = << >> THEN "" ELSE o.offers[1].src

\* s without the elements of X
Without(s, X) == SelectIds(s, Ids \ X)

\* the two prompts are equal ignoring case and surrounding whitespace
SamePrompt(a, b) == NormTable[a] = NormTable[b]

\* this step is the first part of handle_message
MessageStep == pc = "idle" /\ pc' = "retrieving"

\* this step is a New-prompt reset
NewPromptStep == MessageStep /\ ~SamePrompt(original_prompt, original_prompt')

\* this step is a Reject of a candidate that is in the queue
RejectStep == out'.kind = "reject" /\ out'.movie \in Range(movie_queue)

\* this step is an Accept of a candidate that is in the queue
WatchStep == out'.kind = "watch" /\ out'.movie \in Range(movie_queue)

\* in a Reject step: the prefetch slot holds a candidate tagged with the
\* active prompt whose id is not in excluded
SlotMatches(excluded) ==
    /\ prefetched_next_movie # 0
    /\ SamePrompt(prefetched_query, original_prompt)
    /\ prefetched_next_movie \notin excluded

\* in a Reject step: the queue entries left after the rejected candidate and
\* the excluded ids are taken out
NextInQueue == Without(movie_queue, suggested_movies \cup {out'.movie})

\* C1: whenever a step offers a candidate, its id was not in suggested_movies
\* before the step: no candidate is offered twice between two resets, also
\* when the same prompt is sent again.
C1_OfferedIsNew ==
    [][OfferedId(out') # 0 => OfferedId(out') \notin suggested_movies]_vars

\* C2: after a step that offers a candidate, the candidate's id is in
\* suggested_movies, on every offer path.
C2_OfferedIsExcluded ==
    OfferedId(out) # 0 => OfferedId(out) \in suggested_movies

\* C3: a step that is not a New-prompt reset removes no id from
\* suggested_movies.
C3_ExcludedOnlyGrows ==
    [][~NewPromptStep => suggested_movies \subseteq suggested_movies']_vars

\* C4: a Reject never offers a prefetched candidate that was stored by a task
\* started before the most recent New-prompt reset.
C4_NoStalePrefetchOffered ==
    [][OfferedSrc(out') = "prefetch" => ~prefetched_stale]_vars

C6_DiscoveryRegardlessOfClass ==
    [][(RejectStep /\ "fast" \in out'.calls /\ OfferedSrc(out') # "fast")
        => "discover" \in out'.calls]_vars

\* C6 amended: a Reject of a candidate in the queue offers at most one
\* candidate; it is the matching prefetched candidate if there is one, else
\* the next queue entry that is not excluded if there is one, and only then
\* is fast_movie_search called; the discovery call is made only when that
\* search yielded nothing and the active prompt is not a person query; a
\* Reject that offers nothing sends exactly one 'no more' message.
C6_SourceOrder ==
    [][RejectStep =>
        LET usable == SlotMatches(suggested_movies \cup {out'.movie})
            rest == NextInQueue
        IN
        /\ Len(out'.offers) <= 1
        /\ usable => /\ OfferedSrc(out') = "prefetch"
                     /\ out'.calls = {}
        /\ (~usable /\ rest # << >>)
             => /\ out'.offers = <<Offer(rest[1], "queue")>>
                /\ out'.calls = {}
        /\ (~usable /\ rest = << >>)
             => /\ "fast" \in out'.calls
                /\ OfferedSrc(out') \in {"fast", "discover", ""}
        /\ "discover" \in out'.calls
             <=> /\ ~usable
                 /\ rest = << >>
                 /\ OfferedSrc(out') # "fast"
                 /\ original_prompt \notin ActorTexts
        /\ OfferedSrc(out') = "discover" => "discover" \in out'.calls
        /\ out'.offers = << >> <=> out'.msgs = <<"noted", "no_more">>
        /\ out'.offers # << >> => out'.msgs = <<"noted">>]_vars

\* a Reject under a person query has ended with 'no more' without the
\* discovery call
C6_Witness ==
    /\ out.kind = "reject"
    /\ out.msgs = <<"noted", "no_more">>
    /\ out.calls = {"fast"}
    /\ original_prompt \in ActorTexts

\* C7 as stated: in every state no element of movie_queue has an id that is
\* in suggested_movies.
C7_QueueHoldsNoExcluded ==
    \A i \in 1..Len(movie_queue) : movie_queue[i] \notin suggested_movies

\* C7 amended: right after a Reject that offers the next queue entry, no
\* element of movie_queue has an id that was in suggested_movies when the
\* Reject began, or the rejected id.
C7_QueueFilteredOnReject ==
    [][(RejectStep /\ OfferedSrc(out') = "queue")
        => Range(movie_queue') \cap (suggested_movies \cup {out'.movie}) = {}]_vars

\* a Reject has just offered the next queue entry
C7_Witness ==
    /\ out.kind = "reject"
    /\ OfferedSrc(out) = "queue"
    /\ movie_queue # << >>
    /\ movie_queue[1] = OfferedId(out)
    /\ out.movie \in suggested_movies

C9_WatchLeavesQueue ==
    [][WatchStep => /\ movie_queue' = movie_queue
                    /\ out'.offers = << >>]_vars

\* C9 amended: an Accept of a candidate in the queue offers no next
\* candidate and sends no new buttons; it takes the accepted candidate out of
\* movie_queue, leaving the other entries in their order, adds its id to
\* suggested_movies and sets its 'watching' marker; the prefetch slot stays.
C9_WatchRemovesAccepted ==
    [][WatchStep =>
        /\ movie_queue' = Without(movie_queue, {out'.movie})
        /\ suggested_movies' = suggested_movies \cup {out'.movie}
        /\ watching' = watching \cup {out'.movie}
        /\ out'.offers = << >>
        /\ UNCHANGED <<buttons, prefetched_next_movie, prefetched_query,
                       original_prompt>>]_vars

\* an Accept has just taken its candidate out of a queue with more entries
C9_Witness ==
    /\ out.kind = "watch"
    /\ out.msgs = <<"enjoy">>
    /\ out.movie \in watching
    /\ out.movie \notin Range(movie_queue)
    /\ movie_queue # << >>

\* C10: a rating job that fires after a Rating submit for its candidate, made
\* since the Accept that scheduled it, sends nothing.
C10_RatedJobSendsNothing ==
    [][(out'.kind = "job" /\ out'.note = "rated") => out'.msgs = << >>]_vars

\* C40: an Accept of a candidate in the queue is all-or-nothing: after it
\* the marker of the candidate exists if and only if this Accept scheduled
\* the rating job of the candidate; when job_queue.run_once raises, no
\* marker is left.
C40_MarkerIffJobScheduled ==
    [][WatchStep =>
         /\ (out'.movie \in watching') <=> (out'.note = "scheduled")
         /\ (out'.note = "not_scheduled") =>
                (out'.movie \notin watching' /\ jobs' = jobs)]_vars

SlotWritten ==
    /\ prefetched_next_movie' # 0
    /\ <<prefetched_next_movie', prefetched_query'>> #
           <<prefetched_next_movie, prefetched_query>>

\* C36: under every interleaving of the completions of prefetch tasks with
\* the handlers, the prefetch slot and its tag are set and cleared together;
\* a slot that holds a candidate has the tag of the task that stored it,
\* which is the prompt that was active when that task started, and the
\* handlers leave the pair as it is or clear both, so that no handler reads
\* a candidate with the tag of another task.
C36_SlotAndTagTogether ==
    /\ []((prefetched_next_movie = 0) <=> (prefetched_query = 0))
    /\ [][SlotWritten =>
            /\ out'.kind = "prefetch"
            /\ \E task \in tasks \ tasks' : prefetched_query' = task.prompt]_vars
    /\ [][out'.kind # "prefetch" =>
            <<prefetched_next_movie', prefetched_query'>> \in
                {<<prefetched_next_movie, prefetched_query>>, <<0, 0>>}]_vars
    /\ [][\A task \in tasks' :
            task.prompt \in {k.prompt : k \in tasks} \cup {original_prompt}]_vars

\* a task that started under an earlier prompt stored its candidate while
\* handle_message was between its reset and its retrieval: the slot holds
\* the candidate with the earlier prompt as its tag
C36_Witness ==
    /\ pc = "retrieving"
    /\ out.kind = "prefetch"
    /\ prefetched_next_movie # 0
    /\ prefetched_query # 0
    /\ ~SamePrompt(prefetched_query, original_prompt)
    /\ prefetched_stale

\* the step is a press of Watch, or of Dislike or Watched (kind "reject"), on
\* a candidate the queue does not hold
PressNotInQueue ==
    /\ out'.kind \in {"watch", "reject"}
    /\ out'.movie \notin Range(movie_queue)

\* C35: a watch, dislike or watched action on a candidate that is not in
\* the queue changes nothing in the session (queue, excluded set, prefetch
\* slot, markers, jobs), writes nothing to the memory, offers no candidate,
\* and the user gets the one reply that the movie could not be found.
C35_NotInQueueRepliesOnce ==
    [][PressNotInQueue =>
          /\ UNCHANGED <<movie_queue, suggested_movies, prefetched_next_movie,
                         prefetched_query, watching, jobs, original_prompt>>
          /\ out'.calls = {}
          /\ out'.offers = << >>
          /\ out'.msgs = <<"not_in_queue">>]_vars

\* C24: a Rating submit for a candidate removes the marker of that
\* candidate and leaves the queue, the excluded set, the active prompt, the
\* prefetch slot and the markers of the other candidates as they were.
C24_RatingClearsOnlyItsMarker ==
    [][out'.kind = "rate" =>
          /\ out'.movie \notin watching'
          /\ \A movie_id \in Ids \ {out'.movie} :
                 movie_id \in watching' <=> movie_id \in watching
          /\ movie_queue' = movie_queue
          /\ suggested_movies' = suggested_movies
          /\ original_prompt' = original_prompt
          /\ prefetched_next_movie' = prefetched_next_movie
          /\ prefetched_query' = prefetched_query]_vars

\* a rating was submitted for a candidate that had a marker while another
\* candidate had one too and the queue and the excluded set were not empty
C24_Witness ==
    /\ out.kind = "rate"
    /\ out.movie \notin watching
    /\ watching # {}
    /\ movie_queue # << >>
    /\ suggested_movies # {}
    /\ \E k \in jobs : k.movie = out.movie /\ k.state = "rated"

(***************************************************************************)
(* The detail cache: cache.py and the agent tool get_movie_details.  A     *)
(* Python dict keeps its keys in insertion order and assigning to a key    *)
(* it holds keeps the key's place, so the cache is the list of its keys,   *)
(* earliest-inserted first.                                                *)
(***************************************************************************)

MAX_CACHE_SIZE == 100

NewKeys == 2

\* the ids the cache operations are called with: some of the first ids
\* cached and some that were never cached
CacheKeys == (1..NewKeys) \cup ((MAX_CACHE_SIZE + 1)..(MAX_CACHE_SIZE + NewKeys))

\* the dict after n insertions of the ids 1..n into the empty dict
FirstKeys(n) == [i \in 1..n |-> i]

\* cache[movie_id] = data; if len(cache) > limit: del cache[last(cache)]
cache_insert_newest(cache, movie_id, limit) ==
    LET stored == IF movie_id \in Range(cache) THEN cache
                  ELSE Append(cache, movie_id)
    IN  IF Len(stored) > limit THEN SubSeq(stored, 1, Len(stored) - 1)
        ELSE stored

\* as cache_insert, with a key that is stored again moved behind the others
\* (the order of last use)
cache_insert_move_to_end(cache, movie_id, limit) ==
    LET stored == Append(SelectSeq(cache, LAMBDA k : k # movie_id), movie_id)
    IN  IF Len(stored) > limit THEN Tail(stored) ELSE stored

\* cache[movie_id] = data; if len(cache) > limit: del cache[next(iter(cache))]
cache_insert(cache, movie_id, limit) ==
    LET stored == IF movie_id \in Range(cache) THEN cache
                  ELSE Append(cache, movie_id)
    IN  IF Len(stored) > limit THEN Tail(stored) ELSE stored

\* return _movie_cache.get(movie_id)
get_cached_movie_of(movie_id) ==
    /\ cache_op' = [op |-> IF movie_id \in Range(movie_cache)
                            THEN "hit" ELSE "miss",
                    key |-> movie_id]
    /\ UNCHANGED <<movie_cache, result, session_vars, task_vars>>

get_cached_movie ==
    \E movie_id \in CacheKeys :
        get_cached_movie_of(movie_id) /\ UNCHANGED args

set_cached_movie_of(movie_id) ==
    /\ movie_cache' = cache_insert(movie_cache, movie_id, MAX_CACHE_SIZE)
    /\ cache_op' = [op |-> "insert", key |-> movie_id]
    /\ UNCHANGED <<result, session_vars, task_vars>>

set_cached_movie ==
    \E movie_id \in CacheKeys :
        set_cached_movie_of(movie_id) /\ UNCHANGED args

\* the tool answers from the cache when it holds the id and stores the
\* fetched record otherwise; a failed fetch raises before the store
get_movie_details_of(movie_id, fetched) ==
    /\ IF movie_id \in Range(movie_cache)
       THEN /\ cache_op' = [op |-> "hit", key |-> movie_id]
            /\ UNCHANGED movie_cache
       ELSE IF fetched
       THEN /\ movie_cache' = cache_insert(movie_cache, movie_id, 100)
            /\ cache_op' = [op |-> "insert", key |-> movie_id]
       ELSE /\ cache_op' = [op |-> "error", key |-> movie_id]
            /\ UNCHANGED movie_cache
    /\ UNCHANGED <<result, session_vars, task_vars>>

get_movie_details ==
    \E movie_id \in CacheKeys, fetched \in BOOLEAN :
        get_movie_details_of(movie_id, fetched) /\ UNCHANGED args

InitCache ==
    /\ SessionInit
    /\ \E n \in 0..MAX_CACHE_SIZE : movie_cache = FirstKeys(n)
    /\ cache_op = [op |-> "none", key |-> 0]
    /\ TasksIdle
    /\ args = [fn |-> "none"]
    /\ result = [status |-> "none"]

NextCache ==
    \/ get_cached_movie
    \/ set_cached_movie
    \/ get_movie_details

SpecCache == InitCache /\ [][NextCache]_vars

\* the step stored an id the cache did not hold while it held
\* MAX_CACHE_SIZE entries
InsertIntoFull ==
    /\ cache_op'.op = "insert"
    /\ cache_op'.key \notin Range(movie_cache)
    /\ Len(movie_cache) = MAX_CACHE_SIZE

\* C11: the cache never holds more than MAX_CACHE_SIZE entries, and storing
\* a new id in a full cache removes exactly the earliest-inserted entry: the
\* others keep their order, the new id comes last and the cache holds
\* MAX_CACHE_SIZE entries again.
C11_CacheBounded ==
    /\ [](Len(movie_cache) <= MAX_CACHE_SIZE)
    /\ [][InsertIntoFull =>
            /\ movie_cache' = Append(Tail(movie_cache), cache_op'.key)
            /\ Len(movie_cache') = MAX_CACHE_SIZE]_vars

\* a new id was stored in a full cache: the first id cached is gone and the
\* stored id is the latest entry
C11_Witness ==
    /\ cache_op.op = "insert"
    /\ Len(movie_cache) = MAX_CACHE_SIZE
    /\ movie_cache[1] > 1
    /\ movie_cache[MAX_CACHE_SIZE] = cache_op.key
    /\ cache_op.key > MAX_CACHE_SIZE

(***************************************************************************)
(* The tasks that use the cache at the same time.  asyncio runs one task   *)
(* at a time and changes task at an await; the model changes task after    *)
(* every statement, which allows every interleaving of the event loop and  *)
(* more.  A task is a call of fast_movie_search (get_cached_movie, the     *)
(* detail request, set_cached_movie), of the agent's tool                  *)
(* get_movie_details, or of the watch branch of handle_button_callback,    *)
(* which holds the lock while it asks the catalog for the runtime.         *)
(***************************************************************************)

CacheTaskIds == 1..3

CacheUsers == {"fast_movie_search", "get_movie_details", "watch"}

\* the ids the tasks ask for: one the cache holds and two it does not
SharedKeys == {1, MAX_CACHE_SIZE + 1, MAX_CACHE_SIZE + 2}

IdleTask == [user |-> "none", pc |-> "idle", key |-> 0, seen |-> 0,
             evicted |-> 0]

\* as lock_free, with a lock that excludes no one
lock_free_always(holder) == TRUE

\* asyncio.Lock: "async with" goes on when no task holds the lock
lock_free(holder) == holder = 0

\* a task starts: it reaches the "async with" before its read of the cache
task_start(t) ==
    /\ cache_tasks[t].pc = "idle"
    /\ \E user \in CacheUsers, movie_id \in SharedKeys :
        cache_tasks' = [cache_tasks EXCEPT ![t] =
                            [user |-> user, pc |-> "lock_read",
                             key |-> movie_id, seen |-> 0, evicted |-> 0]]
    /\ UNCHANGED <<cache_lock, movie_cache, cache_op, args, result,
                   session_vars>>

\* "async with _cache_lock:" before the read and before the store
lock_acquire(t) ==
    /\ cache_tasks[t].pc \in {"lock_read", "lock_store"}
    /\ lock_free(cache_lock)
    /\ cache_lock' = t
    /\ cache_tasks' = [cache_tasks EXCEPT ![t].pc =
                           IF @ = "lock_read" THEN "read" ELSE "store"]
    /\ UNCHANGED <<movie_cache, cache_op, args, result, session_vars>>

\* the read under the lock: _movie_cache.get(movie_id) in get_cached_movie,
\* "if movie_id in cache" in get_movie_details and in the watch branch.  A
\* hit ends the task; after a miss the search and the tool leave the lock
\* and ask the catalog, the watch branch asks the catalog inside the lock
cache_read(t) ==
    LET task == cache_tasks[t]
        hit == task.key \in Range(movie_cache)
    IN  /\ task.pc = "read"
        /\ cache_tasks' = [cache_tasks EXCEPT
                               ![t].seen = Len(movie_cache),
                               ![t].pc = IF hit THEN "done"
                                         ELSE IF task.user = "watch"
                                         THEN "held_fetch" ELSE "fetch"]
        /\ cache_lock' = IF ~hit /\ task.user = "watch" THEN cache_lock ELSE 0
        /\ UNCHANGED <<movie_cache, cache_op, args, result, session_vars>>

\* the request to the catalog outside the lock: the record is stored when
\* it arrives, and the task ends when the request fails
cache_fetch(t) ==
    /\ cache_tasks[t].pc = "fetch"
    /\ \E fetched \in BOOLEAN :
        cache_tasks' = [cache_tasks EXCEPT ![t].pc =
                            IF fetched THEN "lock_store" ELSE "done"]
    /\ UNCHANGED <<cache_lock, movie_cache, cache_op, args, result,
                   session_vars>>

\* the watch branch: the answer of the catalog arrives and the lock is left
watch_fetch(t) ==
    /\ cache_tasks[t].pc = "held_fetch"
    /\ cache_tasks' = [cache_tasks EXCEPT ![t].pc = "done"]
    /\ cache_lock' = 0
    /\ UNCHANGED <<movie_cache, cache_op, args, result, session_vars>>

\* "_movie_cache[movie_id] = movie_data" under the lock
cache_store(t) ==
    /\ cache_tasks[t].pc = "store"
    /\ movie_cache' = IF cache_tasks[t].key \in Range(movie_cache)
                      THEN movie_cache
                      ELSE Append(movie_cache, cache_tasks[t].key)
    /\ cache_tasks' = [cache_tasks EXCEPT ![t].pc = "evict"]
    /\ UNCHANGED <<cache_lock, cache_op, args, result, session_vars>>

\* "if len(_movie_cache) > MAX_CACHE_SIZE: del _movie_cache[oldest_key]"
\* (100 in get_movie_details), and the end of the "async with"
cache_evict(t) ==
    LET limit == IF cache_tasks[t].user = "get_movie_details" THEN 100
                 ELSE MAX_CACHE_SIZE
        full == Len(movie_cache) > limit
    IN  /\ cache_tasks[t].pc = "evict"
        /\ movie_cache' = IF full THEN Tail(movie_cache) ELSE movie_cache
        /\ cache_tasks' = [cache_tasks EXCEPT
                               ![t].pc = "done",
                               ![t].evicted = IF full THEN @ + 1 ELSE @]
        /\ cache_lock' = 0
        /\ UNCHANGED <<cache_op, args, result, session_vars>>

\* a cache that is full or one entry short of it, and three tasks
InitTasks ==
    /\ SessionInit
    /\ \E n \in {MAX_CACHE_SIZE - 1, MAX_CACHE_SIZE} :
           movie_cache = FirstKeys(n)
    /\ cache_op = [op |-> "none", key |-> 0]
    /\ cache_lock = 0
    /\ cache_tasks = [t \in CacheTaskIds |-> IdleTask]
    /\ args = [fn |-> "none"]
    /\ result = [status |-> "none"]

NextTasks ==
    \E t \in CacheTaskIds :
        \/ task_start(t)
        \/ lock_acquire(t)
        \/ cache_read(t)
        \/ cache_fetch(t)
        \/ watch_fetch(t)
        \/ cache_store(t)
        \/ cache_evict(t)

SpecTasks == InitTasks /\ [][NextTasks]_vars

\* the task is between its store and its eviction
Inserting(t) == cache_tasks[t].pc = "evict"

\* C21: an insertion into the cache and the eviction it may bring run as
\* one critical section under the cache lock: whatever the interleaving of
\* the tasks, no task reads a cache of more than MAX_CACHE_SIZE entries (the
\* cache holds one more only between the store and the eviction of the task
\* that holds the lock), and an insertion evicts one entry at most.
C21_InsertAndEvictAreAtomic ==
    /\ [](\A t \in DOMAIN cache_tasks :
            /\ cache_tasks[t].seen <= MAX_CACHE_SIZE
            /\ cache_tasks[t].evicted <= 1
            /\ cache_tasks[t].pc \in {"read", "held_fetch", "store", "evict"}
                   => cache_lock = t)
    /\ [](Len(movie_cache) > MAX_CACHE_SIZE =>
            /\ Len(movie_cache) = MAX_CACHE_SIZE + 1
            /\ cache_lock \in DOMAIN cache_tasks
            /\ Inserting(cache_lock))
    /\ [][Len(movie_cache') >= Len(movie_cache) - 1]_vars

\* a task has stored an entry in a full cache and not yet evicted, one task
\* waits for the lock to read and one to store; then the reader read a
\* cache of MAX_CACHE_SIZE entries
C21_Witness ==
    \E t, u, v \in DOMAIN cache_tasks :
        /\ Inserting(t)
        /\ Len(movie_cache) = MAX_CACHE_SIZE + 1
        /\ cache_tasks[u].pc = "lock_read"
        /\ cache_tasks[v].pc = "lock_store"
        /\ cache_tasks[v].seen = MAX_CACHE_SIZE

(***************************************************************************)
(* filter_by_quality of movie_search.py.  A candidate is the catalog's     *)
(* record of a movie; the filter reads vote_average (held in tenths),      *)
(* vote_count and the year of release_date (0 when the record has no       *)
(* release date or one that does not start with a number).                 *)
(***************************************************************************)

MIN_RATING == 70
MIN_VOTE_COUNT == 500
MIN_RATING_FALLBACK == 65
MIN_VOTE_COUNT_FALLBACK == 300

MaxResults == 2

\* the values on both sides of every threshold the filter tests
Ratings == {MIN_RATING_FALLBACK - 1, MIN_RATING_FALLBACK, MIN_RATING, 85}
VoteCounts == {MIN_VOTE_COUNT_FALLBACK - 1, MIN_VOTE_COUNT_FALLBACK,
               MIN_VOTE_COUNT, 10000}
Years == {0, 2009, 2010}

Candidates == [vote_average : Ratings, vote_count : VoteCounts, year : Years]

\* the lists of at most n candidates
ResultLists(n) == UNION {[1..k -> Candidates] : k \in 0..n}

\* as passes_primary, with "rating < 8.5 and vote_count < 10000" as the
\* test that drops a film released before 2010
passes_primary_either(r, christmas_flag) ==
    /\ r.vote_average >= MIN_RATING
    /\ r.vote_count >= MIN_VOTE_COUNT
    /\ ~ ( /\ r.year # 0
           /\ ~christmas_flag
           /\ r.year < 2010
           /\ (r.vote_average < 85 /\ r.vote_count < 10000) )

\* the first loop: the primary thresholds, and for a dated film of a query
\* that is not a holiday query the test on its year
passes_primary(r, christmas_flag) ==
    /\ r.vote_average >= MIN_RATING
    /\ r.vote_count >= MIN_VOTE_COUNT
    /\ ~ ( /\ r.year # 0
           /\ ~christmas_flag
           /\ r.year < 2010
           /\ (r.vote_average < 85 \/ r.vote_count < 10000) )

\* the second loop: the relaxed thresholds
passes_fallback(r) ==
    /\ r.vote_average >= MIN_RATING_FALLBACK
    /\ r.vote_count >= MIN_VOTE_COUNT_FALLBACK

\* the list in the opposite order
Reversed(s) == [i \in 1..Len(s) |-> s[Len(s) + 1 - i]]

\* as filter_by_quality, with rated_results.insert(0, r) for
\* rated_results.append(r)
filter_by_quality_reversed(results, christmas_flag) ==
    LET rated_results ==
            SelectSeq(results, LAMBDA r : passes_primary(r, christmas_flag))
    IN  IF rated_results # << >> THEN Reversed(rated_results)
        ELSE Reversed(SelectSeq(results, passes_fallback))

\* as filter_by_quality, with the relaxed thresholds used beside the primary
\* ones
filter_by_quality_both(results, christmas_flag) ==
    SelectSeq(results, LAMBDA r : passes_primary(r, christmas_flag)
                                      \/ passes_fallback(r))

filter_by_quality(results, christmas_flag) ==
    LET rated_results ==
            SelectSeq(results, LAMBDA r : passes_primary(r, christmas_flag))
    IN  IF rated_results # << >> THEN rated_results
        ELSE SelectSeq(results, passes_fallback)

\* the call has not returned
Pending == [status |-> "pending"]

\* the call returned value
Returned(value) == [status |-> "returned", value |-> value]

\* the filter applied to the list of catalog records it was called with
filter_by_quality_call ==
    /\ args.fn = "filter_by_quality"
    /\ result = Pending
    /\ result' = Returned(filter_by_quality(args.results, args.is_christmas))
    /\ UNCHANGED <<args, movie_cache, cache_op, session_vars, task_vars>>

\* the filter applied to the list it returned, with the same holiday flag
filter_by_quality_again ==
    /\ args.fn = "filter_by_quality"
    /\ result.status = "returned"
    /\ ~args.again
    /\ args' = [fn |-> "filter_by_quality", results |-> result.value,
                is_christmas |-> args.is_christmas, again |-> TRUE]
    /\ result' = Returned(filter_by_quality(result.value, args.is_christmas))
    /\ UNCHANGED <<movie_cache, cache_op, session_vars, task_vars>>

InitQuality ==
    /\ SessionInit
    /\ movie_cache = << >>
    /\ cache_op = [op |-> "none", key |-> 0]
    /\ TasksIdle
    /\ \E results \in ResultLists(MaxResults), christmas_flag \in BOOLEAN :
           args = [fn |-> "filter_by_quality", results |-> results,
                   is_christmas |-> christmas_flag, again |-> FALSE]
    /\ result = Pending

NextQuality ==
    \/ filter_by_quality_call
    \/ filter_by_quality_again

SpecQuality == InitQuality /\ [][NextQuality]_vars

\* the last step filtered a list for a query that is not a holiday query
\* and some candidate passed the first loop, so the relaxed thresholds were
\* not used
PrimaryTier ==
    /\ args.fn = "filter_by_quality"
    /\ result.status = "returned"
    /\ ~args.is_christmas
    /\ \E i \in 1..Len(args.results) : passes_primary(args.results[i], FALSE)

MeetsPrimary(r) ==
    r.vote_average >= MIN_RATING /\ r.vote_count >= MIN_VOTE_COUNT

Admitted(r) == r \in Range(result.value)

C16_FilterIdempotent ==
    (args.fn = "filter_by_quality" /\ args.again) =>
        result = Returned(args.results)

\* a list that only the relaxed thresholds let through was filtered a
\* second time
C16_Witness ==
    /\ args.fn = "filter_by_quality"
    /\ args.again
    /\ result.value # << >>
    /\ \A i \in 1..Len(result.value) : ~MeetsPrimary(result.value[i])

(***************************************************************************)
(* score_movie and the sort of fast_movie_search.  Scores are held in      *)
(* tenths, so that rating * 6.0 of a rating given in tenths is an integer; *)
(* the source adds the same terms as floats.  score_movie reads the year   *)
(* of the clock, datetime.now().year, which is an input of the model.      *)
\* the primary tier with its rule on age: the primary thresholds, and for a
\* dated film released before 2010 of a query that is not a holiday query a
\* rating of 8.5 and 10000 votes
InPrimaryTier(r) ==
    /\ MeetsPrimary(r)
    /\ (r.year # 0 /\ r.year < 2010 /\ ~args.is_christmas) =>
           (r.vote_average >= 85 /\ r.vote_count >= 10000)

\* the relaxed tier, without a rule on age
InRelaxedTier(r) ==
    r.vote_average >= MIN_RATING_FALLBACK
        /\ r.vote_count >= MIN_VOTE_COUNT_FALLBACK

\* C27: filter_by_quality applies the relaxed tier exactly when no candidate
\* passes the primary tier with its rule on age; when a candidate passes the
\* primary tier the result holds the candidates of the primary tier only,
\* and none that only the relaxed tier admits.
C27_RelaxedOnlyWhenPrimaryEmpty ==
    (args.fn = "filter_by_quality" /\ result.status = "returned") =>
        IF \E i \in 1..Len(args.results) : InPrimaryTier(args.results[i])
        THEN result.value = SelectSeq(args.results, InPrimaryTier)
        ELSE result.value = SelectSeq(args.results, InRelaxedTier)

\* a list with a candidate of the primary tier and one that only the
\* relaxed tier admits was filtered to the first alone
C27_Witness ==
    /\ args.fn = "filter_by_quality"
    /\ result.status = "returned"
    /\ ~args.again
    /\ Len(args.results) = 2
    /\ InPrimaryTier(args.results[2])
    /\ ~InPrimaryTier(args.results[1])
    /\ InRelaxedTier(args.results[1])
    /\ result.value = <<args.results[2]>>

(***************************************************************************)

MaxRanked == 3

T_comedy_night == <<"C", "o", "m", "e", "d", "y", " ", "N", "i", "g", "h", "t">>
T_heat == <<"H", "e", "a", "t">>

\* the years the clock shows when a list is ranked
ClockYears == {2025, 2027}

\* the catalog records that are ranked: vote_average in tenths and the year
\* of release_date
RankCandidates ==
    [vote_average : {70, 80}, vote_count : {1500}, popularity : {10},
     year : {2021, 2024}, title : {T_comedy_night, T_heat},
     overview : {<< >>}]

\* str.split(): the maximal runs of characters that are not whitespace
RECURSIVE Split(_)
Split(s) ==
    IF s = << >> THEN << >>
    ELSE IF IsSpace(s[1]) THEN Split(Tail(s))
    ELSE LET n == CHOOSE k \in 1..Len(s) :
                      /\ \A i \in 1..k : ~IsSpace(s[i])
                      /\ (k = Len(s) \/ IsSpace(s[k + 1]))
         IN  <<SubSeq(s, 1, n)>> \o Split(SubSeq(s, n + 1, Len(s)))

Min(a, b) == IF a <= b THEN a ELSE b

\* as score_movie, with each occurrence of a word of the request counted
\* (query.lower().split() without set())
score_movie_per_occurrence(movie, query, from_actor_search, current_year) ==
    LET rating == movie.vote_average
        vote_count == movie.vote_count
        popularity == movie.popularity
        title == Lower(movie.title)
        overview == Lower(movie.overview)
        year == movie.year
        query_words == Split(Lower(query))
        title_matches ==
            Cardinality({i \in 1..Len(query_words) :
                Len(query_words[i]) > 2 /\ Contains(title, query_words[i])})
        overview_matches ==
            Cardinality({i \in 1..Len(query_words) :
                Len(query_words[i]) > 2 /\ Contains(overview, query_words[i])})
    IN  (IF from_actor_search THEN 500 ELSE 0)
        + rating * 6
        + (IF vote_count >= 10000 THEN 150
           ELSE IF vote_count >= 5000 THEN 100
           ELSE IF vote_count >= 2000 THEN 60
           ELSE IF vote_count < 1000 THEN 0 - 50
           ELSE 0)
        + (IF popularity >= 100 THEN 120
           ELSE IF popularity >= 50 THEN 80
           ELSE IF popularity < 5 THEN 0 - 30
           ELSE 0)
        + (IF year = 0 THEN 0
           ELSE (IF year < 2010 THEN 0 - 150
                 ELSE IF year >= 2020 THEN Min((year - 2020) * 20, 100)
                 ELSE 0)
                + (IF year >= current_year - 2 THEN 80 ELSE 0))
        + title_matches * 100
        + overview_matches * 30

\* score_movie, ten times the float of the source
score_movie(movie, query, from_actor_search, current_year) ==
    LET rating == movie.vote_average
        vote_count == movie.vote_count
        popularity == movie.popularity
        title == Lower(movie.title)
        overview == Lower(movie.overview)
        year == movie.year
        query_words == Range(Split(Lower(query)))
        title_matches ==
            Cardinality({w \in query_words : Len(w) > 2 /\ Contains(title, w)})
        overview_matches ==
            Cardinality({w \in query_words : Len(w) > 2 /\ Contains(overview, w)})
    IN  (IF from_actor_search THEN 500 ELSE 0)
        + rating * 6
        + (IF vote_count >= 10000 THEN 150
           ELSE IF vote_count >= 5000 THEN 100
           ELSE IF vote_count >= 2000 THEN 60
           ELSE IF vote_count < 1000 THEN 0 - 50
           ELSE 0)
        + (IF popularity >= 100 THEN 120
           ELSE IF popularity >= 50 THEN 80
           ELSE IF popularity < 5 THEN 0 - 30
           ELSE 0)
        + (IF year = 0 THEN 0
           ELSE (IF year < 2010 THEN 0 - 150
                 ELSE IF year >= 2020 THEN Min((year - 2020) * 20, 100)
                 ELSE 0)
                + (IF year >= current_year - 2 THEN 80 ELSE 0))
        + title_matches * 100
        + overview_matches * 30

\* as sort_by_score, with the records of equal score in the opposite of
\* their order in the list (an ascending stable sort, then reversed)
sort_by_score_reversed(scored) ==
    LET n == Len(scored)
        pos(i) == 1 + Cardinality({j \in 1..n : scored[j][1] > scored[i][1]})
                    + Cardinality({j \in 1..n :
                                      j > i /\ scored[j][1] = scored[i][1]})
    IN  [p \in 1..n |-> scored[CHOOSE i \in 1..n : pos(i) = p]]

\* scored.sort(key=lambda x: x[0], reverse=True): the pairs by descending
\* score; list.sort is stable and reverse=True keeps the pairs of equal
\* score in their order in the list
sort_by_score(scored) ==
    LET n == Len(scored)
        pos(i) == 1 + Cardinality({j \in 1..n : scored[j][1] > scored[i][1]})
                    + Cardinality({j \in 1..n :
                                      j < i /\ scored[j][1] = scored[i][1]})
    IN  [p \in 1..n |-> scored[CHOOSE i \in 1..n : pos(i) = p]]

\* a list comprehension: the list of the values, each computed once
Listed(s) == SelectSeq(s, LAMBDA x : TRUE)

\* the "Score and sort" step of fast_movie_search
rank_results(results, query, from_actor_search, current_year) ==
    IF Len(results) > 1
    THEN LET scored == Listed([i \in 1..Len(results) |->
                            <<score_movie(results[i], query, from_actor_search,
                                          current_year),
                              results[i]>>])
             sorted == sort_by_score(scored)
         IN  [i \in 1..Len(sorted) |-> sorted[i][2]]
    ELSE results

\* the list is ranked at the year the clock shows
rank_call ==
    /\ args.fn = "rank_results"
    /\ result = Pending
    /\ result' = Returned(rank_results(args.results, TextOf(args.query),
                                       args.query \in ActorTexts,
                                       args.current_year))
    /\ UNCHANGED <<args, movie_cache, cache_op, session_vars, task_vars>>

\* the same list is ranked a second time with the same query, at once or
\* after the clock has moved on
rank_again ==
    /\ args.fn = "rank_results"
    /\ result.status = "returned"
    /\ ~args.again
    /\ \E later \in ClockYears :
        /\ later >= args.current_year
        /\ args' = [args EXCEPT !.again = TRUE, !.first = result.value,
                                !.first_year = args.current_year,
                                !.current_year = later]
        /\ result' = Returned(rank_results(args.results, TextOf(args.query),
                                           args.query \in ActorTexts, later))
    /\ UNCHANGED <<movie_cache, cache_op, session_vars, task_vars>>

InitRank ==
    /\ SessionInit
    /\ movie_cache = << >>
    /\ cache_op = [op |-> "none", key |-> 0]
    /\ TasksIdle
    /\ \E results \in ListsOf(RankCandidates, MaxRanked), query \in TextIds,
          current_year \in ClockYears :
           args = [fn |-> "rank_results", results |-> results,
                   query |-> query, current_year |-> current_year,
                   again |-> FALSE, first |-> << >>,
                   first_year |-> current_year]
    /\ result = Pending

NextRank ==
    \/ rank_call
    \/ rank_again

SpecRank == InitRank /\ [][NextRank]_vars

\* the score of a ranked record, as the last ranking computed it
ScoreOf(r) ==
    score_movie(r, TextOf(args.query), args.query \in ActorTexts,
                args.current_year)

\* the place of r in the list that was ranked
PlaceOf(r) == CHOOSE i \in 1..Len(args.results) : args.results[i] = r

\* the ranking holds the records of the list, by non-increasing score, the
\* records of equal score in their order in the list
RankedStably ==
    LET ranked == result.value
    IN  /\ Len(ranked) = Len(args.results)
        /\ Range(ranked) = Range(args.results)
        /\ \A p, q \in 1..Len(ranked) :
               p < q =>
                   /\ ScoreOf(ranked[p]) >= ScoreOf(ranked[q])
                   /\ ScoreOf(ranked[p]) = ScoreOf(ranked[q]) =>
                          PlaceOf(ranked[p]) < PlaceOf(ranked[q])

RankReturned == args.fn = "rank_results" /\ result.status = "returned"

\* C19 as stated: a ranking is by non-increasing score with the records of
\* equal score in their retrieved order, and ranking the same list with the
\* same query a second time gives the same order.
C19_SameOrderTwice ==
    RankReturned =>
        /\ RankedStably
        /\ args.again => result.value = args.first

\* C19, amended: a ranking is by non-increasing score with the records of
\* equal score in their retrieved order, and ranking the same list with the
\* same query a second time in the same calendar year gives the same order.
C19_SameOrderTwiceInYear ==
    RankReturned =>
        /\ RankedStably
        /\ (args.again /\ args.current_year = args.first_year) =>
               result.value = args.first

\* a list was ranked twice in one year; the ranking moved a record ahead of
\* one retrieved before it and left two records of equal score in their
\* retrieved order
C19_Witness ==
    /\ RankReturned
    /\ args.again
    /\ args.current_year = args.first_year
    /\ result.value # args.results
    /\ \E p, q \in 1..Len(result.value) :
           /\ p < q
           /\ ScoreOf(result.value[p]) = ScoreOf(result.value[q])

(***************************************************************************)
(* validate_and_build_poster_url of utils.py.  The regular expressions of  *)
(* the source are computed on the characters of the path.                  *)
(***************************************************************************)

TMDB_IMAGE_BASE_URL ==
    <<"h", "t", "t", "p", "s", ":", "/", "/", "i", "m", "a", "g", "e", ".",
      "t", "m", "d", "b", ".", "o", "r", "g", "/", "t", "/", "p", "/", "w",
      "5", "0", "0">>
URL_PREFIX ==
    <<"h", "t", "t", "p", "s", ":", "/", "/", "i", "m", "a", "g", "e", ".",
      "t", "m", "d", "b", ".", "o", "r", "g", "/", "t", "/", "p", "/", "w">>
P_slash == <<"/">>
P_space_slash == <<" ", "/">>
P_http == <<"h", "t", "t", "p", ":", "/", "/">>
S_abc123 == <<"a", "b", "c", "1", "2", "3">>
S_a == <<"a">>
S_dir == <<"a", "_", "b", "-", "c", "/", "D", "4">>
S_script == <<"a", "b", "c", "<", "s", "c", "r", "i", "p", "t", ">">>
S_evil == <<"e", "v", "i", "l", ".", "c", "o", "m", "/", "x">>
S_www == <<"w", "w", "w">>
S_http_word == <<"h", "t", "t", "p">>
S_javascript == <<"j", "a", "v", "a", "s", "c", "r", "i", "p", "t">>
E_jpg == <<".", "j", "p", "g">>
E_jpeg == <<".", "j", "p", "e", "g">>
E_png == <<".", "p", "n", "g">>
E_webp == <<".", "w", "e", "b", "p">>
E_JPG == <<".", "J", "P", "G">>
E_gif == <<".", "g", "i", "f">>
E_jpg_space == <<".", "j", "p", "g", " ">>
X_jpg == <<"j", "p", "g">>
X_jpeg == <<"j", "p", "e", "g">>
X_png == <<"p", "n", "g">>
X_webp == <<"w", "e", "b", "p">>
X_http == <<"h", "t", "t", "p">>
X_https == <<"h", "t", "t", "p", "s">>
X_script_tag == <<"<", "s", "c", "r", "i", "p", "t">>
X_javascript == <<"j", "a", "v", "a", "s", "c", "r", "i", "p", "t">>
X_data == <<"d", "a", "t", "a", ":">>
X_dot_com == <<".", "c", "o", "m">>
X_dot_org == <<".", "o", "r", "g">>
X_dot_net == <<".", "n", "e", "t">>
X_www_dot == <<"w", "w", "w", ".">>

DigitChars == {"0", "1", "2", "3", "4", "5", "6", "7", "8", "9"}

\* the poster paths the function is called with: a prefix, a stem and an
\* ending, among them the four paths '/abc123.jpg', 'http://evil.com/x.jpg',
\* '/abc<script>.jpg' and ''
PathPrefixes == {<< >>, P_slash, P_space_slash, P_http}
PathStems == {<< >>, S_abc123, S_a, S_dir, S_script, S_evil, S_www, S_http_word,
              S_javascript}
PathEndings == {<< >>, E_jpg, E_jpeg, E_png, E_webp, E_JPG, E_gif, E_jpg_space}
PosterPaths == {p \o s \o e : p \in PathPrefixes, s \in PathStems,
                              e \in PathEndings}

\* the class [a-zA-Z0-9_\-/]
IsPathChar(c) == IsLetter(c) \/ c \in DigitChars \/ c \in {"_", "-", "/"}

\* (jpg|jpeg|png|webp) under re.IGNORECASE
IsImageExt(s) == Lower(s) \in {X_jpg, X_jpeg, X_png, X_webp}

\* s[i..] matches [a-zA-Z0-9_\-/]+\.(jpg|jpeg|png|webp)$ under re.IGNORECASE
MatchesPathTail(s, i) ==
    \E dot \in (i + 1)..Len(s) :
        /\ \A k \in i..(dot - 1) : IsPathChar(s[k])
        /\ s[dot] = "."
        /\ IsImageExt(SubSeq(s, dot + 1, Len(s)))

\* re.match(r'^/[a-zA-Z0-9_\-/]+\.(jpg|jpeg|png|webp)$', s, re.IGNORECASE)
valid_pattern(s) == Len(s) >= 1 /\ s[1] = "/" /\ MatchesPathTail(s, 2)

\* the patterns of suspicious_patterns, each a plain substring
suspicious_patterns ==
    {X_http, X_https, X_script_tag, X_javascript, X_data, X_dot_com, X_dot_org,
     X_dot_net, X_www_dot}

\* any(re.search(pattern, s, re.IGNORECASE) for pattern in suspicious_patterns)
is_suspicious(s) == \E w \in suspicious_patterns : Contains(Lower(s), w)

\* re.match(r'^https://image\.tmdb\.org/t/p/w\d+/[a-zA-Z0-9_\-/]+\.(jpg|jpeg|png|webp)$',
\*          s, re.IGNORECASE)
valid_url(s) ==
    /\ Len(s) > Len(URL_PREFIX)
    /\ Lower(SubSeq(s, 1, Len(URL_PREFIX))) = URL_PREFIX
    /\ \E slash \in (Len(URL_PREFIX) + 2)..Len(s) :
        /\ \A k \in (Len(URL_PREFIX) + 1)..(slash - 1) : s[k] \in DigitChars
        /\ s[slash] = "/"
        /\ MatchesPathTail(s, slash + 1)

\* poster_url.startswith("https://image.tmdb.org/t/p/w")
StartsWith(s, w) == Len(s) >= Len(w) /\ SubSeq(s, 1, Len(w)) = w

\* as validate_and_build_poster_url, with none of the validations: the base
\* URL followed by the stripped path
validate_and_build_poster_url_unchecked(poster_path) ==
    IF poster_path = << >> THEN << >>
    ELSE LET stripped == Strip(poster_path)
             path == IF StartsWith(stripped, P_slash) THEN stripped
                     ELSE P_slash \o stripped
         IN  TMDB_IMAGE_BASE_URL \o path

\* as validate_and_build_poster_url, with a path that does not begin with
\* "/" as it was given refused
validate_and_build_poster_url_as_supplied(poster_path) ==
    IF poster_path = << >> \/ ~StartsWith(poster_path, P_slash) THEN << >>
    ELSE LET stripped == Strip(poster_path)
             poster_url == TMDB_IMAGE_BASE_URL \o stripped
         IN  IF Len(stripped) < 5 THEN << >>
             ELSE IF ~valid_pattern(stripped) THEN << >>
             ELSE IF is_suspicious(stripped) THEN << >>
             ELSE IF ~valid_url(poster_url) THEN << >>
             ELSE poster_url

validate_and_build_poster_url(poster_path) ==
    IF poster_path = << >> THEN << >>
    ELSE LET stripped == Strip(poster_path)
             path == IF StartsWith(stripped, P_slash) THEN stripped
                     ELSE P_slash \o stripped
             poster_url == TMDB_IMAGE_BASE_URL \o path
         IN  IF stripped = << >> \/ Len(stripped) < 5 THEN << >>
             ELSE IF ~valid_pattern(path) THEN << >>
             ELSE IF is_suspicious(path) THEN << >>
             ELSE IF ~StartsWith(poster_url, URL_PREFIX) THEN << >>
             ELSE IF ~valid_url(poster_url) THEN << >>
             ELSE poster_url

\* the function applied to the path it was called with
poster_call ==
    /\ args.fn = "validate_and_build_poster_url"
    /\ result = Pending
    /\ result' = Returned(validate_and_build_poster_url(args.poster_path))
    /\ UNCHANGED <<args, movie_cache, cache_op, session_vars, task_vars>>

InitPoster ==
    /\ SessionInit
    /\ movie_cache = << >>
    /\ cache_op = [op |-> "none", key |-> 0]
    /\ TasksIdle
    /\ \E poster_path \in PosterPaths :
           args = [fn |-> "validate_and_build_poster_url",
                   poster_path |-> poster_path]
    /\ result = Pending

NextPoster == poster_call

SpecPoster == InitPoster /\ [][NextPoster]_vars

PosterReturned ==
    args.fn = "validate_and_build_poster_url" /\ result.status = "returned"

\* the four paths the claim names give the results it names
NamedPaths ==
    /\ args.poster_path = P_slash \o S_abc123 \o E_jpg =>
           result.value = TMDB_IMAGE_BASE_URL \o P_slash \o S_abc123 \o E_jpg
    /\ args.poster_path \in {P_http \o S_evil \o E_jpg,
                             P_slash \o S_script \o E_jpg, << >>} =>
           result.value = << >>

\* url is the base URL, a "/", one or more of the letters, digits, "_", "-"
\* and "/", and one of the endings in exts
BaseAndPath(url, exts) ==
    /\ StartsWith(url, TMDB_IMAGE_BASE_URL \o P_slash)
    /\ \E dot \in (Len(TMDB_IMAGE_BASE_URL) + 3)..Len(url) :
        /\ \A k \in (Len(TMDB_IMAGE_BASE_URL) + 2)..(dot - 1) : IsPathChar(url[k])
        /\ SubSeq(url, dot, Len(url)) \in exts

\* C20 as stated: '/abc123.jpg' gives 'https://image.tmdb.org/t/p/w500/abc123.jpg',
\* 'http://evil.com/x.jpg', '/abc<script>.jpg' and '' give '', and every
\* result is empty or the base URL followed by a path of letters, digits,
\* '_', '-' and '/' that ends in .jpg, .jpeg, .png or .webp.
C20_PosterUrlShape ==
    PosterReturned =>
        /\ NamedPaths
        /\ \/ result.value = << >>
           \/ BaseAndPath(result.value, {E_jpg, E_jpeg, E_png, E_webp})

\* C20, amended: the same, the ending being .jpg, .jpeg, .png or .webp in
\* any letter case.
C20_PosterUrlShapeAnyCase ==
    PosterReturned =>
        /\ NamedPaths
        /\ \/ result.value = << >>
           \/ BaseAndPath(result.value,
                          {e \in {SubSeq(result.value, k, Len(result.value)) :
                                      k \in 1..Len(result.value)} :
                              Lower(e) \in {E_jpg, E_jpeg, E_png, E_webp}})

\* str(poster_path).strip(), with "/" put in front when it does not begin
\* with one
WithLeadingSlash(poster_path) ==
    IF StartsWith(Strip(poster_path), P_slash) THEN Strip(poster_path)
    ELSE P_slash \o Strip(poster_path)

\* C34 as stated: a poster reference is accepted only if the reference as
\* supplied begins with '/': every input that does not begin with '/'
\* yields the empty string.
C34_AcceptedOnlyWithSlash ==
    (PosterReturned /\ ~StartsWith(args.poster_path, P_slash)) =>
        result.value = << >>

\* C34, amended: a poster reference is accepted only if it begins with '/'
\* once the whitespace around it is stripped and a '/' is put in front of a
\* reference that has none: the result is empty or the base URL followed by
\* that path, and a reference of five characters or more without the '/' has
\* the result of the same reference with it.
C34_AcceptedWithSlashAdded ==
    PosterReturned =>
        /\ \/ result.value = << >>
           \/ result.value =
                  TMDB_IMAGE_BASE_URL \o WithLeadingSlash(args.poster_path)
        /\ Len(Strip(args.poster_path)) >= 5 =>
              result.value = validate_and_build_poster_url(
                                 WithLeadingSlash(args.poster_path))

\* 'abc123.jpg' was given without its '/' and its URL was built
C34_Witness ==
    /\ PosterReturned
    /\ args.poster_path = S_abc123 \o E_jpg
    /\ result.value = TMDB_IMAGE_BASE_URL \o P_slash \o S_abc123 \o E_jpg

\* '/abc123.jpg' was given and its URL was built
C20_Witness ==
    /\ PosterReturned
    /\ args.poster_path = P_slash \o S_abc123 \o E_jpg
    /\ result.value = TMDB_IMAGE_BASE_URL \o P_slash \o S_abc123 \o E_jpg

(***************************************************************************)
(* fast_movie_search of movie_search.py with the calls it makes, and the   *)
(* handlers' use of its result.  What the catalog, the memory service and  *)
(* the agent answer is an argument of the call: each answer is a list of   *)
(* catalog ids or a failure (network error, status other than 200,         *)
(* timeout).                                                               *)
(***************************************************************************)

\* the keys of GENRE_MAP
G_detective == <<"d", "e", "t", "e", "c", "t", "i", "v", "e">>
G_crime == <<"c", "r", "i", "m", "e">>
G_mystery == <<"m", "y", "s", "t", "e", "r", "y">>
G_thriller == <<"t", "h", "r", "i", "l", "l", "e", "r">>
G_horror == <<"h", "o", "r", "r", "o", "r">>
G_comedy == <<"c", "o", "m", "e", "d", "y">>
G_action == <<"a", "c", "t", "i", "o", "n">>
G_romance == <<"r", "o", "m", "a", "n", "c", "e">>
G_drama == <<"d", "r", "a", "m", "a">>
G_sci_fi == <<"s", "c", "i", "-", "f", "i">>
G_science_fiction ==
    <<"s", "c", "i", "e", "n", "c", "e", " ", "f", "i", "c", "t", "i", "o",
      "n">>
G_fantasy == <<"f", "a", "n", "t", "a", "s", "y">>
G_noir == <<"n", "o", "i", "r">>
G_western == <<"w", "e", "s", "t", "e", "r", "n">>
G_adventure == <<"a", "d", "v", "e", "n", "t", "u", "r", "e">>
G_war == <<"w", "a", "r">>
G_animation == <<"a", "n", "i", "m", "a", "t", "i", "o", "n">>
G_documentary == <<"d", "o", "c", "u", "m", "e", "n", "t", "a", "r", "y">>

\* sorted(GENRE_MAP.items(), key=lambda x: len(x[0]), reverse=True): the sort
\* is stable, keys of one length stay in the order of the dict
GENRE_MAP_sorted == <<
    <<G_science_fiction, 878>>, <<G_documentary, 99>>, <<G_detective, 80>>,
    <<W_christmas, 10751>>, <<G_adventure, 12>>, <<G_animation, 16>>,
    <<G_thriller, 53>>, <<G_mystery, 9648>>, <<G_romance, 10749>>,
    <<G_fantasy, 14>>, <<W_holiday, 10751>>, <<G_western, 37>>,
    <<G_horror, 27>>, <<G_comedy, 35>>, <<G_action, 28>>, <<G_sci_fi, 878>>,
    <<G_crime, 80>>, <<G_drama, 18>>, <<W_xmas, 10751>>, <<G_noir, 80>>,
    <<G_war, 10752>> >>

\* the requests fast_movie_search is called with
Q_pitt ==
    <<"f", "i", "l", "m", "s", " ", "w", "i", "t", "h", " ", "B", "r", "a",
      "d", " ", "P", "i", "t", "t">>
Q_comedy == <<"c", "o", "m", "e", "d", "y">>
Q_christmas ==
    <<"c", "h", "r", "i", "s", "t", "m", "a", "s", " ", "m", "o", "v", "i",
      "e">>
Q_heat == <<"f", "i", "n", "d", " ", "t", "h", "e", " ", "h", "e", "a", "t">>
Q_comedy_pitt ==
    <<"c", "o", "m", "e", "d", "y", " ", "w", "i", "t", "h", " ", "B", "r",
      "a", "d", " ", "P", "i", "t", "t">>
Q_xmas_hanks ==
    <<"x", "m", "a", "s", " ", "f", "i", "l", "m", "s", " ", "w", "i", "t",
      "h", " ", "T", "o", "m", " ", "H", "a", "n", "k", "s">>
Q_by == <<"b", "y">>
Q_detective_war ==
    <<"d", "e", "t", "e", "c", "t", "i", "v", "e", " ", "c", "r", "i", "m",
      "e", " ", "w", "a", "r">>
Q_comedy_drama ==
    <<"c", "o", "m", "e", "d", "y", " ", "d", "r", "a", "m", "a">>

SearchTexts ==
    <<Q_pitt, Q_comedy, Q_christmas, Q_heat, Q_comedy_pitt, Q_xmas_hanks, Q_by,
      Q_detective_war, Q_comedy_drama>>

SearchTextIds == 1..Len(SearchTexts)

\* the keys of known_actors ("statham" and "dicaprio" are W_statham and
\* W_dicaprio)
K_brad_pitt == <<"b", "r", "a", "d", " ", "p", "i", "t", "t">>
K_brad_pit == <<"b", "r", "a", "d", " ", "p", "i", "t">>
K_tom_hanks == <<"t", "o", "m", " ", "h", "a", "n", "k", "s">>
K_leonardo == <<"l", "e", "o", "n", "a", "r", "d", "o">>

\* the full names of known_actors
N_jason_statham ==
    <<"J", "a", "s", "o", "n", " ", "S", "t", "a", "t", "h", "a", "m">>
N_brad_pitt == <<"B", "r", "a", "d", " ", "P", "i", "t", "t">>
N_tom_hanks == <<"T", "o", "m", " ", "H", "a", "n", "k", "s">>
N_leonardo_dicaprio ==
    <<"L", "e", "o", "n", "a", "r", "d", "o", " ", "D", "i", "C", "a", "p", "r", "i", "o">>

\* known_actors.items(), in the order of the dict
known_actors ==
    <<<<W_statham, N_jason_statham>>, <<K_brad_pitt, N_brad_pitt>>,
      <<K_brad_pit, N_brad_pitt>>, <<K_tom_hanks, N_tom_hanks>>,
      <<W_dicaprio, N_leonardo_dicaprio>>, <<K_leonardo, N_leonardo_dicaprio>>>>

\* "for key, full_name in known_actors.items(): if key in query_lower:
\* return full_name": the full name of the first key found in the request,
\* the empty name when no key is found
known_actor_name(query_lower) ==
    LET hits == SelectSeq(known_actors,
                          LAMBDA e : Contains(query_lower, e[1]))
    IN  IF hits = << >> THEN << >> ELSE hits[1][2]

\* the words the keyword search drops from the request
D_find == <<"f", "i", "n", "d">>
D_a == <<"a">>
D_the == <<"t", "h", "e">>
D_an == <<"a", "n">>
D_for == <<"f", "o", "r">>
D_me == <<"m", "e">>
D_give == <<"g", "i", "v", "e">>

search_stop_words == {D_find, D_a, D_the, D_an, D_for, D_me, D_give}

\* christmas_keywords
C_santa == <<"s", "a", "n", "t", "a">>
C_elf == <<"e", "l", "f">>
C_scrooge == <<"s", "c", "r", "o", "o", "g", "e">>
C_home_alone == <<"h", "o", "m", "e", " ", "a", "l", "o", "n", "e">>
C_miracle_on == <<"m", "i", "r", "a", "c", "l", "e", " ", "o", "n">>
C_wonderful_life ==
    <<"w", "o", "n", "d", "e", "r", "f", "u", "l", " ", "l", "i", "f", "e">>

christmas_keywords == {W_christmas, W_xmas, W_holiday, C_santa, C_elf, C_scrooge,
                       C_home_alone, C_miracle_on, C_wonderful_life}

\* common_words of the title check
D_and == <<"a", "n", "d">>
D_of == <<"o", "f">>
D_in == <<"i", "n">>
D_on == <<"o", "n">>
D_at == <<"a", "t">>
D_to == <<"t", "o">>

common_words == {D_the, D_a, D_an, D_and, D_of, D_in, D_on, D_at, D_to, D_for}

\* titles of catalog records
T_christmas_heat ==
    <<"C", "h", "r", "i", "s", "t", "m", "a", "s", " ", "H", "e", "a", "t">>
T_other == <<"A", "n", "o", "t", "h", "e", "r", " ", "F", "i", "l", "m">>
\* the catalog's record of a movie: vote_average in tenths and the year of
\* release_date
CatalogMovie(id) ==
    IF id % 3 = 1
    THEN [id |-> id, vote_average |-> 80, vote_count |-> 10000,
          popularity |-> 10, year |-> 2021, title |-> T_heat,
          overview |-> << >>]
    ELSE IF id % 3 = 2
    THEN [id |-> id, vote_average |-> 70, vote_count |-> 500,
          popularity |-> 50, year |-> 2024, title |-> T_comedy_night,
          overview |-> << >>]
    ELSE [id |-> id, vote_average |-> 65, vote_count |-> 300,
          popularity |-> 100, year |-> 2009, title |-> T_christmas_heat,
          overview |-> << >>]

\* what a call to the catalog answers: the records of a list of ids, or a
\* failure
Answer(ok, ids) == [ok |-> ok, ids |-> ids]

Answers == {Answer(TRUE, ids) : ids \in ListsOf(Ids, MaxId)}
               \cup {Answer(FALSE, << >>)}

NoAnswer == Answer(FALSE, << >>)

RecordsOf(ids) == Listed([i \in 1..Len(ids) |-> CatalogMovie(ids[i])])

IdsOf(results) == Listed([i \in 1..Len(results) |-> results[i].id])

\* s[:n]
Prefix(s, n) == SubSeq(s, 1, Min(n, Len(s)))

\* " ".join(words)
RECURSIVE Join(_)
Join(words) ==
    IF words = << >> THEN << >>
    ELSE IF Len(words) = 1 THEN words[1]
    ELSE words[1] \o <<" ">> \o Join(Tail(words))

\* the loop over the sorted GENRE_MAP: the ids of the first two keys found
\* in the request
found_genres(query_lower) ==
    LET hits == SelectSeq(GENRE_MAP_sorted,
                          LAMBDA e : Contains(query_lower, e[1]))
    IN  [i \in 1..Min(2, Len(hits)) |-> hits[i][2]]

\* the term of the keyword search
clean_query(query, is_christmas_query) ==
    IF is_christmas_query THEN W_christmas
    ELSE Join(Prefix(SelectSeq(Split(Lower(query)),
                               LAMBDA w : w \notin search_stop_words), 5))

\* what fast_movie_search computes from the request alone
QueryEntry(query) ==
    [is_actor_query |-> is_actor_query(query),
     is_christmas_query |-> is_christmas(query),
     actor_name |-> known_actor_name(Lower(query)),
     known_actor |-> known_actor_name(Lower(query)) # << >>,
     found_genres |-> found_genres(Lower(query)),
     clean_query |-> clean_query(query, is_christmas(query))]

\* QueryEntry, tabulated once per request of SearchTexts
QueryTable ==
    Listed([t \in SearchTextIds |-> QueryEntry(SearchTexts[t])])

\* extract_actor_name returns a name: a key of known_actors occurs in the
\* request, or the patterns and the heuristic on its words (rest) give one
extract_actor_name(t, rest) == QueryTable[t].known_actor \/ rest

\* search_person: the first person found, None when none is found or the
\* call fails
search_person(person) == person = "found"

\* get_person_movie_credits: cast and crew, [] when the call fails
get_person_movie_credits(credits) ==
    IF credits.ok THEN RecordsOf(credits.ids) ELSE << >>

\* filtered.sort(key=lambda x: (popularity, vote_average), reverse=True)
sort_by_popularity(filtered) ==
    LET keyed == sort_by_score(
                     Listed([i \in 1..Len(filtered) |->
                         <<filtered[i].popularity * 1000
                               + filtered[i].vote_average,
                           filtered[i]>>]))
    IN  [i \in 1..Len(keyed) |-> keyed[i][2]]

search_actor_movies(excluded_ids, person, credits) ==
    IF ~search_person(person) THEN << >>
    ELSE LET movies_list == get_person_movie_credits(credits)
             filtered ==
                 SelectSeq(movies_list, LAMBDA movie :
                     /\ movie.id \notin excluded_ids
                     /\ \/ /\ movie.vote_average >= MIN_RATING
                           /\ movie.vote_count >= MIN_VOTE_COUNT
                        \/ /\ movie.vote_average >= MIN_RATING_FALLBACK
                           /\ movie.vote_count >= MIN_VOTE_COUNT_FALLBACK)
         IN  Prefix(sort_by_popularity(filtered), 30)

\* "unique_genre_ids = list(dict.fromkeys(genre_ids))[:2]": the genre ids
\* of the request to the discovery, without repetitions, two at most
unique_genre_ids(genre_ids) ==
    LET firsts == SelectSeq([i \in 1..Len(genre_ids) |-> <<i, genre_ids[i]>>],
                            LAMBDA e : \A j \in 1..(e[1] - 1) :
                                           genre_ids[j] # e[2])
    IN  Prefix([i \in 1..Len(firsts) |-> firsts[i][2]], 2)

\* discover_trending_movies: the call or its parsing may raise, which is
\* caught; the excluded ids are dropped when there are any
discover_trending_movies_impl(discover, excluded_ids) ==
    LET results == IF discover.ok THEN RecordsOf(discover.ids) ELSE << >>
        filtered_results ==
            IF excluded_ids # {} /\ results # << >>
            THEN SelectSeq(results, LAMBDA r : r.id \notin excluded_ids)
            ELSE results
    IN  Prefix(filtered_results, 20)

\* as keyword_search, without the try/except around the request
keyword_search_uncaught(search) ==
    [raised |-> ~search.ok,
     results |-> Prefix(RecordsOf(search.ids), 10)]

\* the request to /search/movie: the first ten results, nothing when the
\* request fails or the status is not 200
keyword_search(search) ==
    [raised |-> FALSE,
     results |-> IF search.ok THEN Prefix(RecordsOf(search.ids), 10)
                 ELSE << >>]

\* the detail record a request for movie_id is answered with
DetailRecord(movie_id, movie_title, detail) ==
    [id |-> IF detail.same_id THEN movie_id ELSE movie_id + 1,
     title |-> IF detail.same_title THEN movie_title ELSE T_other]

\* the words of the first four of a normalised title that are not
\* common_words
TitleWords(norm) == Range(Prefix(Split(norm), 4)) \ common_words

\* fetch_poster_and_verify_movie returns the detail record: the request
\* succeeded with status 200, the record has the requested id and its title
\* is not a different one
fetch_poster_and_verify_movie(movie_id, movie_title, detail) ==
    /\ detail.ok
    /\ LET movie_details == DetailRecord(movie_id, movie_title, detail)
           expected_norm == Strip(Lower(movie_title))
           returned_norm == Strip(Lower(movie_details.title))
       IN  /\ movie_details.id = movie_id
           /\ ~ ( /\ movie_title # << >>
                  /\ movie_details.title # << >>
                  /\ expected_norm # returned_norm
                  /\ TitleWords(expected_norm) \cap TitleWords(returned_norm) = {}
                  /\ TitleWords(expected_norm) # {}
                  /\ TitleWords(returned_norm) # {} )

\* the result of a search: it raised, or it returned None (movies empty), or
\* the ids of the head and the alternates; with the calls it made
SearchResult(raised, movies, person_called, discover_called, search_called, term, head_checked) ==
    [raised |-> raised, movies |-> movies, person_called |-> person_called,
     discover_called |-> discover_called, search_called |-> search_called,
     term |-> term, head_checked |-> head_checked]

\* as all_excluded_ids, without the ids the caller excludes
all_excluded_watched_only(watched_ids, excluded_ids_set) == watched_ids

\* all_excluded = watched_ids | excluded_ids_set
all_excluded_ids(watched_ids, excluded_ids_set) ==
    watched_ids \cup excluded_ids_set

\* as history_filter, with the list kept when the filter leaves nothing
history_filter_lenient(results, watched_ids, all_excluded) ==
    LET watched_titles_set == {Lower(CatalogMovie(i).title) : i \in watched_ids}
        filtered == SelectSeq(results, LAMBDA r :
                        /\ r.id \notin all_excluded
                        /\ ~\E wt \in watched_titles_set :
                               \/ Contains(Lower(r.title), wt)
                               \/ Contains(wt, Lower(r.title)))
    IN  IF filtered = << >> THEN results ELSE filtered

\* "Filter by memory (watched/excluded)": the candidates whose id is not in
\* all_excluded and whose title neither holds nor is held by a watched
\* title; the watched titles are those of the watched ids
history_filter(results, watched_ids, all_excluded) ==
    LET watched_titles_set == {Lower(CatalogMovie(i).title) : i \in watched_ids}
    IN  SelectSeq(results, LAMBDA r :
            /\ r.id \notin all_excluded
            /\ ~\E wt \in watched_titles_set :
                   \/ Contains(Lower(r.title), wt)
                   \/ Contains(wt, Lower(r.title)))

\* as filter_christmas, without "if filtered:"
filter_christmas_strict(results, christmas_flag) ==
    IF christmas_flag
    THEN SelectSeq(results, LAMBDA r :
             \E kw \in christmas_keywords :
                 Contains(Lower(r.title \o <<" ">> \o r.overview), kw))
    ELSE results

\* "Filter Christmas movies": for a holiday query the candidates whose
\* title or overview holds one of christmas_keywords, when there are any
filter_christmas(results, christmas_flag) ==
    LET filtered == SelectSeq(results, LAMBDA r :
                        \E kw \in christmas_keywords :
                            Contains(Lower(r.title \o <<" ">> \o r.overview),
                                     kw))
    IN  IF christmas_flag /\ filtered # << >> THEN filtered ELSE results

\* fast_movie_search from "if not results: return None" on: the filter on
\* the ids and titles of the memory and on the excluded ids, the filter on
\* quality, the filter on christmas_keywords, the ranking, the cache and the
\* detail record of the head
after_retrieval(a, results, from_actor_search, person_called, discover_called, search_called, term) ==
    LET q == QueryTable[a.query]
        None == SearchResult(FALSE, << >>, person_called, discover_called,
                             search_called, term, FALSE)
        watched_ids == IF a.memory.ok THEN a.memory.watched_ids ELSE {}
        all_excluded == all_excluded_ids(watched_ids, a.excluded_ids)
        in_memory == history_filter(results, watched_ids, all_excluded)
        rated == filter_by_quality(in_memory, q.is_christmas_query)
        themed == filter_christmas(rated, q.is_christmas_query)
        ranked == rank_results(themed, SearchTexts[a.query],
                               from_actor_search, a.current_year)
        first_movie == ranked[1]
    IN  IF results = << >> THEN None
        ELSE IF in_memory = << >> THEN None
        ELSE IF rated = << >> THEN None
        ELSE IF a.cached
        THEN SearchResult(FALSE, <<first_movie.id>>, person_called,
                          discover_called, search_called, term, FALSE)
        ELSE IF ~fetch_poster_and_verify_movie(first_movie.id,
                                               first_movie.title, a.detail)
        THEN None
        ELSE IF from_actor_search /\ Len(ranked) > 1
        THEN SearchResult(FALSE,
                          <<first_movie.id>> \o IdsOf(SubSeq(Prefix(ranked, 10),
                                                             2, Min(10, Len(ranked)))),
                          person_called, discover_called, search_called, term,
                          TRUE)
        ELSE SearchResult(FALSE, <<first_movie.id>>, person_called,
                          discover_called, search_called, term, TRUE)

\* as keyword_allowed, with the keyword search open to person queries
keyword_allowed_always(results, actor_search_attempted) == results = << >>

\* "if not results and not actor_search_attempted": the keyword search is
\* for the requests that are not person queries
keyword_allowed(results, actor_search_attempted) ==
    results = << >> /\ ~actor_search_attempted

\* as genre_discovery_reached, with the discovery reached whatever the
\* person-credit strategy found
genre_discovery_reached_always(results) == TRUE

\* "if not results:" before the genre-based discovery
genre_discovery_reached(results) == results = << >>

\* as discovery_allowed, with the holiday requests sent to the discovery
discovery_allowed_holiday(genres, is_christmas_query) == genres # << >>

\* "if found_genres and not is_christmas_query"
discovery_allowed(genres, is_christmas_query) ==
    genres # << >> /\ ~is_christmas_query

\* fast_movie_search(query, user_id, excluded_ids), with the answers of the
\* services in a
fast_movie_search_impl(a) ==
    LET q == QueryTable[a.query]
        actor_search_attempted == q.is_actor_query
        person_called == /\ q.is_actor_query
                         /\ extract_actor_name(a.query, a.rest_name)
        actor_movies == IF person_called
                        THEN search_actor_movies(a.excluded_ids, a.person,
                                                 a.credits)
                        ELSE << >>
        from_actor_search == actor_movies # << >>
        discover_called ==
            /\ genre_discovery_reached(actor_movies)
            /\ discovery_allowed(q.found_genres, q.is_christmas_query)
        discover_results ==
            IF discover_called
            THEN discover_trending_movies_impl(a.discover, a.excluded_ids)
            ELSE << >>
        discovered == IF discover_results # << >> THEN discover_results
                      ELSE actor_movies
        search_called == keyword_allowed(discovered, actor_search_attempted)
        found == keyword_search(a.search)
        term == IF search_called THEN q.clean_query ELSE << >>
        results == IF search_called THEN found.results ELSE discovered
    IN  IF search_called /\ found.raised
        THEN SearchResult(TRUE, << >>, person_called, discover_called,
                          search_called, term, FALSE)
        ELSE after_retrieval(a, results, from_actor_search, person_called,
                             discover_called, search_called, term)

\* the answers of the detail request: a failure, the record asked for, a
\* record with another id, a record with a different title
DetailAnswers ==
    {[ok |-> FALSE, same_id |-> TRUE, same_title |-> TRUE],
     [ok |-> TRUE, same_id |-> TRUE, same_title |-> TRUE],
     [ok |-> TRUE, same_id |-> FALSE, same_title |-> TRUE],
     [ok |-> TRUE, same_id |-> TRUE, same_title |-> FALSE]}

DetailFound == [ok |-> TRUE, same_id |-> TRUE, same_title |-> TRUE]

\* the answers of fetch_user_memories: the watched ids, none when the
\* memory service fails
MemoryAnswers ==
    {[ok |-> TRUE, watched_ids |-> w] : w \in {{}, {1}}}
        \cup {[ok |-> FALSE, watched_ids |-> {}]}

\* the answers to the person strategy of request t: whether the patterns and
\* the heuristic of extract_actor_name give a name, the person, the credits
PersonOptions(t) ==
    LET q == QueryTable[t]
        rests == IF q.is_actor_query /\ ~q.known_actor THEN BOOLEAN
                 ELSE {FALSE}
    IN  UNION {IF q.is_actor_query /\ extract_actor_name(t, rest)
               THEN {<<rest, "found", credits>> : credits \in Answers}
                        \cup {<<rest, "none", NoAnswer>>,
                              <<rest, "failed", NoAnswer>>}
               ELSE {<<rest, "none", NoAnswer>>} : rest \in rests}

DiscoverOptions(t) ==
    IF discovery_allowed(QueryTable[t].found_genres,
                         QueryTable[t].is_christmas_query)
    THEN Answers ELSE {NoAnswer}

SearchOptions(t) == IF QueryTable[t].is_actor_query THEN {NoAnswer} ELSE Answers

\* the head is in the cache, or the answer to the request for its details;
\* an answer that the request never asks for is held at one value
HeadOptions == {<<TRUE, DetailFound>>} \cup {<<FALSE, d>> : d \in DetailAnswers}

\* the search runs with the answers it was given
fast_movie_search_call ==
    /\ args.fn = "fast_movie_search"
    /\ result = Pending
    /\ result' = Returned(fast_movie_search_impl(args))
    /\ UNCHANGED <<args, movie_cache, cache_op, session_vars, task_vars>>

\* what the handler that called the search ends its turn with: an offer,
\* the message that nothing was found, or the message of its outermost
\* except clause
TurnEnded(caller, outcome) ==
    [status |-> "ended", value |-> result.value, caller |-> caller,
     outcome |-> outcome]

\* handle_message around its calls of fast_movie_search: a person query is
\* searched first and the agent is asked when the search returns None; any
\* other request is searched when the agent gives no answer (agent = "none")
\* or none that passes the checks (agent = "invalid"); fallback is the
\* outcome of discover_trending_movies and the detail check in the handler
handle_message_outcome(r, agent, fallback) ==
    LET q == QueryTable[args.query]
    IN  IF r.raised THEN "error"
        ELSE IF q.is_actor_query /\ r.movies # << >> THEN "offer"
        ELSE IF agent = "valid" THEN "offer"
        ELSE IF r.movies # << >> THEN "offer"
        ELSE IF agent = "none" /\ ~q.is_christmas_query /\ fallback THEN "offer"
        ELSE "not_found"

\* handle_button_callback from "Fetch more movies" on: an exception of the
\* search is caught there and taken as None
handle_button_callback_outcome(r, fallback) ==
    LET q == QueryTable[args.query]
    IN  IF ~r.raised /\ r.movies # << >> THEN "offer"
        ELSE IF ~q.is_actor_query /\ fallback THEN "offer"
        ELSE "not_found"

\* the handler that called the search ends its turn
handler_ends_turn ==
    /\ args.fn = "fast_movie_search"
    /\ result.status = "returned"
    /\ \E agent \in {"none", "invalid", "valid"}, fallback \in BOOLEAN :
        \/ /\ QueryTable[args.query].is_actor_query \/ agent # "valid"
           /\ result' = TurnEnded("handle_message",
                            handle_message_outcome(result.value, agent,
                                                   fallback))
        \/ result' = TurnEnded("handle_button_callback",
                         handle_button_callback_outcome(result.value, fallback))
    /\ UNCHANGED <<args, movie_cache, cache_op, session_vars, task_vars>>

InitSearch ==
    /\ SessionInit
    /\ movie_cache = << >>
    /\ cache_op = [op |-> "none", key |-> 0]
    /\ TasksIdle
    /\ \E t \in SearchTextIds, x \in SUBSET Ids, m \in MemoryAnswers,
          h \in HeadOptions :
        \E p \in PersonOptions(t), d \in DiscoverOptions(t),
           s \in SearchOptions(t) :
            args = [fn |-> "fast_movie_search", query |-> t,
                    excluded_ids |-> x, rest_name |-> p[1], person |-> p[2],
                    credits |-> p[3], discover |-> d, search |-> s,
                    memory |-> m, cached |-> h[1], detail |-> h[2],
                    current_year |-> 2025]
    /\ result = Pending

NextSearch ==
    \/ fast_movie_search_call
    \/ handler_ends_turn

SpecSearch == InitSearch /\ [][NextSearch]_vars

SearchReturned ==
    args.fn = "fast_movie_search" /\ result.status \in {"returned", "ended"}

\* what the person-credit strategy yields for the request
PersonYield ==
    IF /\ QueryTable[args.query].is_actor_query
       /\ extract_actor_name(args.query, args.rest_name)
    THEN search_actor_movies(args.excluded_ids, args.person, args.credits)
    ELSE << >>

\* the request names a genre and is not a holiday request
GenreRequest ==
    /\ QueryTable[args.query].found_genres # << >>
    /\ ~QueryTable[args.query].is_christmas_query

\* what the genre discovery yields for the request
DiscoveryYield ==
    IF GenreRequest
    THEN discover_trending_movies_impl(args.discover, args.excluded_ids)
    ELSE << >>

\* C12 as stated: when the person-credit strategy yields nothing for a
\* person query the search goes on to the genre discovery, and the keyword
\* search is attempted for every request for which the person-credit
\* strategy and the genre discovery were both empty.
C12_KeywordSearchAfterEveryEmpty ==
    SearchReturned =>
        /\ (PersonYield = << >> /\ GenreRequest) => result.value.discover_called
        /\ (PersonYield = << >> /\ DiscoveryYield = << >>) =>
               result.value.search_called

\* C12, amended: when the person-credit strategy yields nothing for a person
\* query the search goes on to the genre discovery; the keyword search is
\* attempted exactly for the requests that are not person queries and for
\* which the genre discovery was empty, and a person query for which both
\* were empty returns None without a keyword search.
C12_KeywordSearchUnlessPerson ==
    SearchReturned =>
        /\ (PersonYield = << >> /\ GenreRequest) => result.value.discover_called
        /\ result.value.search_called <=>
               /\ ~QueryTable[args.query].is_actor_query
               /\ DiscoveryYield = << >>
        /\ ( /\ QueryTable[args.query].is_actor_query
             /\ PersonYield = << >>
             /\ DiscoveryYield = << >> ) => result.value.movies = << >>

\* a person query with a known name whose person was found without credits
\* and whose genre discovery was empty returned None with no keyword search
C12_Witness ==
    /\ SearchReturned
    /\ args.query = 5
    /\ args.person = "found"
    /\ args.credits = Answer(TRUE, << >>)
    /\ args.discover = Answer(TRUE, << >>)
    /\ result.value.person_called
    /\ result.value.discover_called
    /\ ~result.value.search_called
    /\ result.value.movies = << >>

\* C13: for a request with one of the holiday keywords the search never
\* calls the genre discovery, although the keyword is a key of GENRE_MAP,
\* and a keyword search it makes uses the term "christmas".
C13_HolidaySkipsDiscovery ==
    (SearchReturned /\ QueryTable[args.query].is_christmas_query) =>
        /\ QueryTable[args.query].found_genres # << >>
        /\ ~result.value.discover_called
        /\ result.value.search_called => result.value.term = W_christmas

\* the request "christmas movie" made a keyword search with the term
\* "christmas" and no discovery, and returned a movie
C13_Witness ==
    /\ SearchReturned
    /\ args.query = 3
    /\ QueryTable[args.query].found_genres = <<10751>>
    /\ result.value.search_called
    /\ result.value.term = W_christmas
    /\ ~result.value.discover_called
    /\ result.value.movies # << >>

\* C15: no movie that fast_movie_search returns, head or alternate, and no
\* movie that discover_trending_movies returns, has an id among the excluded
\* ids, whichever strategy found the candidates and whether or not the head
\* came from the cache.
C15_ReturnsNoExcluded ==
    SearchReturned =>
        /\ Range(result.value.movies) \cap args.excluded_ids = {}
        /\ Range(IdsOf(discover_trending_movies_impl(args.discover,
                                                     args.excluded_ids)))
               \cap args.excluded_ids = {}

\* a keyword search was answered with an excluded id first and returned
\* another movie from the cache
C15_Witness ==
    /\ SearchReturned
    /\ result.value.search_called
    /\ args.search.ids # << >>
    /\ args.search.ids[1] \in args.excluded_ids
    /\ args.cached
    /\ result.value.movies # << >>

\* C26: when the person-credit strategy yields a candidate the search calls
\* neither the genre discovery nor the keyword search and every movie it
\* returns is one of the person's credits; "films with Brad Pitt" is a
\* person query and the name extracted from it is "Brad Pitt".
C26_PersonCreditsStopRetrieval ==
    SearchReturned =>
        /\ PersonYield # << >> =>
               /\ result.value.person_called
               /\ ~result.value.discover_called
               /\ ~result.value.search_called
               /\ Range(result.value.movies) \subseteq Range(args.credits.ids)
        /\ SearchTexts[args.query] = Q_pitt =>
               /\ QueryTable[args.query].is_actor_query
               /\ QueryTable[args.query].actor_name = N_brad_pitt
               /\ result.value.person_called

\* "comedy with Brad Pitt" names a genre, the person's credits gave two
\* candidates and the search returned both without a discovery
C26_Witness ==
    /\ SearchReturned
    /\ SearchTexts[args.query] = Q_comedy_pitt
    /\ GenreRequest
    /\ Len(PersonYield) = 2
    /\ args.discover.ids # << >>
    /\ ~result.value.discover_called
    /\ ~result.value.search_called
    /\ Len(result.value.movies) = 2

\* the candidates that the first strategy with a result retrieved
Retrieved ==
    IF PersonYield # << >> THEN PersonYield
    ELSE IF DiscoveryYield # << >> THEN DiscoveryYield
    ELSE IF ~QueryTable[args.query].is_actor_query /\ args.search.ok
    THEN Prefix(RecordsOf(args.search.ids), 10)
    ELSE << >>

\* the candidate is excluded by the caller or by the history of the user:
\* its id is excluded or watched, or its title holds or is held by the title
\* of a watched movie
InHistory(r) ==
    \/ r.id \in args.excluded_ids
    \/ /\ args.memory.ok
       /\ \E i \in args.memory.watched_ids :
            \/ r.id = i
            \/ Contains(Lower(r.title), Lower(CatalogMovie(i).title))
            \/ Contains(Lower(CatalogMovie(i).title), Lower(r.title))

\* C29: when the exclusion by history removes every retrieved candidate,
\* fast_movie_search returns None, does not raise, and tries no other
\* retrieval strategy.
C29_HistoryEmptiesToNone ==
    ( /\ SearchReturned
      /\ Retrieved # << >>
      /\ \A i \in 1..Len(Retrieved) : InHistory(Retrieved[i]) ) =>
        /\ result.value.movies = << >>
        /\ ~result.value.raised
        /\ PersonYield # << >> =>
               ~result.value.discover_called /\ ~result.value.search_called
        /\ DiscoveryYield # << >> => ~result.value.search_called

\* the credits of the person of "comedy with Brad Pitt" gave one candidate,
\* which the user has watched: the search returned None and asked neither
\* the discovery, which had an answer, nor the keyword search
C29_Witness ==
    /\ SearchReturned
    /\ SearchTexts[args.query] = Q_comedy_pitt
    /\ Len(PersonYield) = 1
    /\ args.memory.ok
    /\ PersonYield[1].id \in args.memory.watched_ids
    /\ args.discover.ids # << >>
    /\ ~args.cached /\ args.detail = DetailFound
    /\ ~result.value.discover_called
    /\ ~result.value.search_called
    /\ result.value.movies = << >>

\* the genre ids of the keywords of GENRE_MAP that the request holds
GenreIdsIn(query) ==
    {e[2] : e \in {g \in Range(GENRE_MAP_sorted) :
                       Contains(Lower(query), g[1])}}

\* C30: the genre detection scans GENRE_MAP from the longest keyword to the
\* shortest and the discovery is asked for the genre ids of the keywords it
\* found, two different ids at most: when the request holds keywords of two
\* different genre ids or more, the discovery is asked for exactly two
\* different genre ids.
C30_TwoDistinctGenres ==
    (SearchReturned /\ result.value.discover_called) =>
        LET asked == unique_genre_ids(QueryTable[args.query].found_genres)
        IN  /\ Range(asked) \subseteq GenreIdsIn(SearchTexts[args.query])
            /\ Len(asked) = Cardinality(Range(asked))
            /\ Len(asked) <= 2
            /\ Cardinality(GenreIdsIn(SearchTexts[args.query])) >= 2 =>
                   Len(asked) = 2

\* the search of the same request with the same answers, the head's detail
\* record being in the cache where it was not and the reverse
OtherCacheState == fast_movie_search_impl([args EXCEPT !.cached = ~@])

\* C38: for the same request, excluded ids, answers of the catalog and
\* memory, fast_movie_search returns the same list of movies whether or not
\* the detail record of the head is in the cache: the same ids in the same
\* order, and for a person query the same queue of alternates.
C38_SameListWithAndWithoutCache ==
    (SearchReturned /\ ~result.value.raised /\ args.detail = DetailFound) =>
        result.value.movies = OtherCacheState.movies

\* C18: when a call to the catalog or to the memory service fails during
\* fast_movie_search, the search does not raise: it goes on to the next
\* strategy or returns None, and the handler that called it ends its turn
\* with an offer or with the message that nothing was found.
C18_FailuresDoNotRaise ==
    SearchReturned =>
        /\ ~result.value.raised
        /\ ( /\ result.value.person_called
             /\ args.person = "failed"
             /\ GenreRequest ) => result.value.discover_called
        /\ ( /\ result.value.discover_called
             /\ ~args.discover.ok
             /\ ~QueryTable[args.query].is_actor_query ) =>
               result.value.search_called
        /\ (result.value.search_called /\ ~args.search.ok) =>
               result.value.movies = << >>
        /\ (result.value.movies # << >> /\ ~args.cached) => args.detail.ok
        /\ result.status = "ended" => result.outcome \in {"offer", "not_found"}

\* the genre discovery and the keyword search of a request both failed, the
\* search returned None and handle_message ended with the message that
\* nothing was found
C18_Witness ==
    /\ args.fn = "fast_movie_search"
    /\ result.status = "ended"
    /\ result.caller = "handle_message"
    /\ result.value.discover_called
    /\ ~args.discover.ok
    /\ result.value.search_called
    /\ ~args.search.ok
    /\ ~args.memory.ok
    /\ result.value.movies = << >>
    /\ result.outcome = "not_found"

\* ---------------------------------------------------------------------
\* Delivery of the head and of the queue alternates of a person query
\* ---------------------------------------------------------------------

\* send_movie_suggestion from "Always fetch poster fresh" on: the outcome of
\* its own request for the detail record of the movie it was handed
send_movie_suggestion_verified(movie_id, movie_title, detail) ==
    fetch_poster_and_verify_movie(movie_id, movie_title, detail)

\* send_movie_suggestion hands the movie to the bot, with the photo or as
\* text only, whatever the outcome of its request for the detail record
send_movie_suggestion_sends(verified) == TRUE

\* the movie at a position of the queue that fast_movie_search returned
\* reaches send_movie_suggestion: the head from the handler that called the
\* search, an alternate from handle_button_callback ("Check queue") once the
\* movies before it are in suggested_movies
Delivered(position, verified) ==
    [status |-> "delivered", value |-> result.value, position |-> position,
     movie_id |-> result.value.movies[position],
     checked_in_search |-> /\ position = 1
                           /\ result.value.head_checked \/ args.cached,
     checked_on_sending |-> verified,
     sent |-> send_movie_suggestion_sends(verified)]

deliver_from_queue ==
    /\ args.fn = "fast_movie_search"
    /\ result.status = "returned"
    /\ \E position \in 1..Len(result.value.movies), detail \in DetailAnswers :
        LET movie_id == result.value.movies[position]
        IN  result' = Delivered(position,
                          send_movie_suggestion_verified(
                              movie_id, CatalogMovie(movie_id).title, detail))
    /\ UNCHANGED <<args, movie_cache, cache_op, session_vars, task_vars>>

\* person queries with nothing excluded and an empty memory
InitDelivery ==
    /\ SessionInit
    /\ movie_cache = << >>
    /\ cache_op = [op |-> "none", key |-> 0]
    /\ TasksIdle
    /\ \E t \in {t \in SearchTextIds : QueryTable[t].is_actor_query},
          h \in HeadOptions :
        \E p \in PersonOptions(t), d \in DiscoverOptions(t) :
            args = [fn |-> "fast_movie_search", query |-> t,
                    excluded_ids |-> {}, rest_name |-> p[1], person |-> p[2],
                    credits |-> p[3], discover |-> d, search |-> NoAnswer,
                    memory |-> [ok |-> TRUE, watched_ids |-> {}],
                    cached |-> h[1], detail |-> h[2], current_year |-> 2025]
    /\ result = Pending

NextDelivery ==
    \/ fast_movie_search_call
    \/ deliver_from_queue

SpecDelivery == InitDelivery /\ [][NextDelivery]_vars

\* C17: a movie is handed to the bot only if a detail record fetched for its
\* id passed the identity check, in the search that returned it or in
\* send_movie_suggestion; this for the head and for the alternates of the
\* queue of a person query.
C17_DeliveredOnlyIfChecked ==
    (result.status = "delivered" /\ result.sent) =>
        result.checked_in_search \/ result.checked_on_sending

(***************************************************************************)
(* The filter on christmas_keywords of fast_movie_search, applied to the   *)
(* list that filter_by_quality returned.                                   *)
(***************************************************************************)

MaxThemed == 3

\* overviews of catalog records
O_santa == <<"S", "a", "n", "t", "a", " ", "i", "s", " ", "l", "a", "t", "e">>
O_plain == <<"A", " ", "h", "e", "i", "s", "t">>

\* candidates with and without a keyword in the title and in the overview
ThemedCandidates ==
    [title : {T_heat, T_christmas_heat}, overview : {<< >>, O_santa, O_plain}]

\* the filter applied to the list it was called with
filter_christmas_call ==
    /\ args.fn = "filter_christmas"
    /\ result = Pending
    /\ result' = Returned(filter_christmas(args.results, args.is_christmas))
    /\ UNCHANGED <<args, movie_cache, cache_op, session_vars, task_vars>>

InitThemed ==
    /\ SessionInit
    /\ movie_cache = << >>
    /\ cache_op = [op |-> "none", key |-> 0]
    /\ TasksIdle
    /\ \E results \in UNION {[1..k -> ThemedCandidates] : k \in 0..MaxThemed},
          christmas_flag \in BOOLEAN :
           args = [fn |-> "filter_christmas", results |-> results,
                   is_christmas |-> christmas_flag]
    /\ result = Pending

NextThemed == filter_christmas_call

SpecThemed == InitThemed /\ [][NextThemed]_vars

\* the title or the overview of the candidate holds a holiday keyword
HasHolidayKeyword(r) ==
    LET text == Lower(r.title \o <<" ">> \o r.overview)
    IN  \/ Contains(text, W_christmas) \/ Contains(text, W_xmas)
        \/ Contains(text, W_holiday) \/ Contains(text, C_santa)
        \/ Contains(text, C_elf) \/ Contains(text, C_scrooge)
        \/ Contains(text, C_home_alone) \/ Contains(text, C_miracle_on)
        \/ Contains(text, C_wonderful_life)

\* C28: for a holiday query the filter on the holiday keywords never makes
\* a list that is not empty an empty one: when no candidate holds a keyword
\* the list is kept as it is, otherwise exactly the candidates that hold a
\* keyword are kept, in their order.
C28_HolidayFilterNeverEmpties ==
    ( /\ args.fn = "filter_christmas"
      /\ result.status = "returned"
      /\ args.is_christmas ) =>
        /\ args.results # << >> => result.value # << >>
        /\ IF \E i \in 1..Len(args.results) : HasHolidayKeyword(args.results[i])
           THEN result.value = SelectSeq(args.results, HasHolidayKeyword)
           ELSE result.value = args.results

\* a list of candidates none of which holds a keyword was kept as it is
C28_Witness ==
    /\ args.fn = "filter_christmas"
    /\ result.status = "returned"
    /\ args.is_christmas
    /\ Len(args.results) = 2
    /\ \A i \in 1..2 : ~HasHolidayKeyword(args.results[i])
    /\ result.value = args.results


(***************************************************************************)
(* The watch branch of handle_button_callback, for a candidate found in    *)
(* the queue: the runtime from the cache or from the catalog, the marker   *)
(* and the rating job.  Spec and SpecWatch take the branch by its effect   *)
(* on the session; here it is taken with the values it computes.           *)
(***************************************************************************)

\* the "runtime" of a record: -1 stands for a record without the key, 0 for
\* a runtime of 0 or None
Runtimes == {-1, 0, 95, 142}

\* the answers of the catalog to the request for the record: the record, a
\* status other than 200, an exception
RuntimeResponses == {"ok", "status", "raised"}

\* the times of the clock at the Accept
ClockTimes == {1000, 2000}

\* as runtime_or_default, with the runtime of the record as it is
runtime_or_default_raw(runtime) == runtime

\* record.get("runtime", 120) or 120
runtime_or_default(runtime) ==
    IF runtime = -1 \/ runtime = 0 THEN 120 ELSE runtime

\* "Get runtime for scheduling rating request": 120, replaced by the runtime
\* of the cached record or of the record the catalog returns
runtime_minutes(a) ==
    IF a.cached THEN runtime_or_default(a.runtime)
    ELSE IF a.response = "ok" THEN runtime_or_default(a.runtime)
    ELSE 120

\* the marker, then job_queue.run_once, which schedules the job or raises;
\* the marker is written before the call
watch_branch(a) ==
    [marker |-> [key |-> a.movie_id,
                 value |-> [title |-> CatalogMovie(a.movie_id).title,
                            id |-> a.movie_id, timestamp |-> a.now]],
     jobs |-> IF a.scheduled
              THEN <<[callback |-> "ask_for_rating", movie_id |-> a.movie_id,
                      delay_seconds |-> (15 + runtime_minutes(a)) * 60]>>
              ELSE << >>,
     response_text |-> IF a.scheduled THEN "check_in" ELSE "saved"]

watch_branch_call ==
    /\ args.fn = "watch"
    /\ result = Pending
    /\ result' = Returned(watch_branch(args))
    /\ UNCHANGED <<args, movie_cache, cache_op, session_vars, task_vars>>

InitAccept ==
    /\ SessionInit
    /\ movie_cache = << >>
    /\ cache_op = [op |-> "none", key |-> 0]
    /\ TasksIdle
    /\ \E movie_id \in Ids, cached \in BOOLEAN, runtime \in Runtimes,
          response \in RuntimeResponses, scheduled \in BOOLEAN,
          now \in ClockTimes :
           args = [fn |-> "watch", movie_id |-> movie_id, cached |-> cached,
                   runtime |-> runtime, response |-> response,
                   scheduled |-> scheduled, now |-> now]
    /\ result = Pending

NextAccept == watch_branch_call

SpecAccept == InitAccept /\ [][NextAccept]_vars

AcceptReturned == args.fn = "watch" /\ result.status = "returned"

\* the runtime of the candidate: that of the cached record or of the record
\* of the catalog, 120 when the record has none, when it is zero, or when
\* the record cannot be fetched
KnownRuntime ==
    IF (args.cached \/ args.response = "ok") /\ args.runtime > 0
    THEN args.runtime ELSE 120

\* the marker of the candidate holds its title and the time of the Accept
MarkerRecorded ==
    /\ result.value.marker.key = args.movie_id
    /\ result.value.marker.value.title = CatalogMovie(args.movie_id).title
    /\ result.value.marker.value.timestamp = args.now

\* one job for the candidate, 15 minutes and its runtime ahead
OneRatingJob ==
    /\ Len(result.value.jobs) = 1
    /\ result.value.jobs[1].movie_id = args.movie_id
    /\ result.value.jobs[1].delay_seconds = (15 + KnownRuntime) * 60

DigitSeq == <<"0", "1", "2", "3", "4", "5", "6", "7", "8", "9">>

\* the digits after the second "_" of the payload
RatingDigits ==
    {<<"0">>, <<"1">>, <<"5">>, <<"8">>, <<"1", "0">>, <<"1", "1">>,
     <<"9", "9">>, <<"0", "7">>}

\* int(c) of a digit
DigitValue(c) == CHOOSE d \in 0..9 : DigitSeq[d + 1] = c

\* int(s) of a string of digits
RECURSIVE ParseInt(_)
ParseInt(s) ==
    IF s = << >> THEN 0
    ELSE 10 * ParseInt(SubSeq(s, 1, Len(s) - 1)) + DigitValue(s[Len(s)])

\* the words the memory text grades the rating with
rating_grade(rating) ==
    IF rating >= 8 THEN "Excellent!"
    ELSE IF rating >= 6 THEN "Good" ELSE "Didn't like it"

\* handle_rating_callback from "rating = int(parts[2])" on: the marker of
\* the movie is deleted when there is one, and the text saved to the memory
\* holds the rating, graded when the catalog returns the genres
rating_callback(a) ==
    LET rating == ParseInt(a.digits)
    IN  [marker_deleted |-> a.marker,
         memory |-> [movie_id |-> a.movie_id, rating |-> rating,
                     grade |-> IF a.response = "ok" THEN rating_grade(rating)
                               ELSE ""],
         response_text |-> rating_grade(rating)]

rating_callback_call ==
    /\ args.fn = "rate"
    /\ result = Pending
    /\ result' = Returned(rating_callback(args))
    /\ UNCHANGED <<args, movie_cache, cache_op, session_vars, task_vars>>

InitRating ==
    /\ SessionInit
    /\ movie_cache = << >>
    /\ cache_op = [op |-> "none", key |-> 0]
    /\ TasksIdle
    /\ \E movie_id \in Ids, digits \in RatingDigits, marker \in BOOLEAN,
          response \in RuntimeResponses :
           args = [fn |-> "rate", movie_id |-> movie_id, digits |-> digits,
                   marker |-> marker, response |-> response]
    /\ result = Pending

NextRating == rating_callback_call

SpecRating == InitRating /\ [][NextRating]_vars

\* C25: every rating that handle_rating_callback records to the memory is
\* an integer from 1 to 10, for every payload rate_<digits>_<digits>.
C25_RatingInRange ==
    (args.fn = "rate" /\ result.status = "returned") =>
        result.value.memory.rating \in 1..10


(***************************************************************************)
(* send_movie_suggestion with the outcomes of the two ways of delivery,    *)
(* and the prefetch task it creates.  Spec takes every delivery to         *)
(* succeed; here the bot's send_photo and send_message may raise.          *)
(***************************************************************************)

\* what can happen inside prefetch_next_movie
PrefetchEvents ==
    {"no_prompt", "agent_raises", "no_response", "parse_fails",
     "detail_fails", "stored"}

\* as send_movie_suggestion_tasks, with a task created after a failed
\* delivery too
send_movie_suggestion_tasks_always(poster, photo_ok, text_ok) ==
    IF poster /\ photo_ok THEN [delivered |-> "photo", created |-> 1]
    ELSE IF text_ok THEN [delivered |-> "text", created |-> 1]
    ELSE [delivered |-> "failed", created |-> 1]

\* send_movie_suggestion from "if poster_url:" on: send_photo and
\* create_task, or after its failure and without a poster send_message and
\* create_task; a failure of send_message goes to the except clause, which
\* creates no task
send_movie_suggestion_tasks(poster, photo_ok, text_ok) ==
    IF poster /\ photo_ok THEN [delivered |-> "photo", created |-> 1]
    ELSE IF text_ok THEN [delivered |-> "text", created |-> 1]
    ELSE [delivered |-> "failed", created |-> 0]

\* prefetch_next_movie: everything is inside "try ... except Exception",
\* and the slot is written only after a verified detail record
prefetch_next_movie_impl(event) ==
    [raised |-> FALSE, stored |-> event = "stored"]

\* the handler calls send_movie_suggestion and returns; the task it created
\* has not run.  After a failed delivery the except clause sends an apology
\* with send_message, and a failure of that one leaves the function
send_movie_suggestion_call ==
    /\ args.fn = "send_movie_suggestion"
    /\ result = Pending
    /\ LET sent == send_movie_suggestion_tasks(args.poster, args.photo_ok,
                                               args.text_ok)
       IN  result' = [status |-> "returned",
                      value |-> [delivered |-> sent.delivered,
                                 created |-> sent.created,
                                 awaited |-> 0,
                                 send_raised |-> /\ sent.delivered = "failed"
                                                 /\ ~args.apology_ok],
                      running |-> sent.created, task |-> [raised |-> FALSE,
                                                          stored |-> FALSE]]
    /\ UNCHANGED <<args, movie_cache, cache_op, session_vars, task_vars>>

\* the event loop runs the task to its end after the handler returned
prefetch_task_runs ==
    /\ args.fn = "send_movie_suggestion"
    /\ result.status = "returned"
    /\ result.running > 0
    /\ result' = [result EXCEPT !.status = "finished",
                                !.running = @ - 1,
                                !.task = prefetch_next_movie_impl(args.event)]
    /\ UNCHANGED <<args, movie_cache, cache_op, session_vars, task_vars>>

InitSend ==
    /\ SessionInit
    /\ movie_cache = << >>
    /\ cache_op = [op |-> "none", key |-> 0]
    /\ TasksIdle
    /\ \E caller \in {"handle_message", "handle_button_callback"},
          poster \in BOOLEAN, photo_ok \in BOOLEAN, text_ok \in BOOLEAN,
          apology_ok \in BOOLEAN, event \in PrefetchEvents :
           args = [fn |-> "send_movie_suggestion", caller |-> caller,
                   poster |-> poster, photo_ok |-> photo_ok,
                   text_ok |-> text_ok, apology_ok |-> apology_ok,
                   event |-> event]
    /\ result = Pending

NextSend ==
    \/ send_movie_suggestion_call
    \/ prefetch_task_runs

SpecSend == InitSend /\ [][NextSend]_vars

\* the candidate reached the chat, with its photo or as text
DeliverySucceeded ==
    (args.poster /\ args.photo_ok) \/ args.text_ok

\* C22: a prefetch task is started exactly once after a successful delivery
\* of a candidate, with the photo or as text, and is not started after a
\* failed one; the handler does not await the task, and no failure inside
\* the task raises into the handler or changes its outcome.
C22_PrefetchOncePerDelivery ==
    /\ []( ( /\ args.fn = "send_movie_suggestion"
             /\ result.status \in {"returned", "finished"} ) =>
               /\ result.value.created = IF DeliverySucceeded THEN 1 ELSE 0
               /\ result.value.awaited = 0
               /\ result.value.send_raised => ~DeliverySucceeded
               /\ ~result.task.raised
               /\ result.task.stored => args.event = "stored" )
    /\ [][ ( /\ args.fn = "send_movie_suggestion"
             /\ result.status = "returned" ) =>
               result'.value = result.value ]_vars

\* the photo could not be sent and the text was: one task was created, the
\* agent raised inside it and the outcome of the handler is as it was
C22_Witness ==
    /\ args.fn = "send_movie_suggestion"
    /\ result.status = "finished"
    /\ args.poster /\ ~args.photo_ok /\ args.text_ok
    /\ args.event = "agent_raises"
    /\ result.value.delivered = "text"
    /\ result.value.created = 1
    /\ result.running = 0

(***************************************************************************)
(* score_movie on its own: the catalog record with its release_date as the *)
(* string the catalog sends, the request and the clock.                    *)
(***************************************************************************)

\* values of release_date
R_2009 == <<"2", "0", "0", "9", "-", "1", "2", "-", "3", "1">>
R_2010 == <<"2", "0", "1", "0", "-", "0", "1", "-", "0", "1">>
R_2019 == <<"2", "0", "1", "9", "-", "0", "6", "-", "0", "1">>
R_2020 == <<"2", "0", "2", "0", "-", "0", "1", "-", "0", "1">>
R_2023 == <<"2", "0", "2", "3", "-", "0", "3", "-", "0", "3">>
R_2025 == <<"2", "0", "2", "5", "-", "0", "7", "-", "0", "7">>
R_2026 == <<"2", "0", "2", "6", "-", "0", "1", "-", "0", "1">>
R_soon == <<"s", "o", "o", "n">>
R_year_only == <<"2", "0", "2", "1">>

ReleaseDates ==
    {<< >>, R_2009, R_2010, R_2019, R_2020, R_2023, R_2025, R_2026, R_soon,
     R_year_only}

\* release_date.split("-")[0]
FirstDashPart(s) ==
    IF \E i \in 1..Len(s) : s[i] = "-"
    THEN SubSeq(s, 1, (CHOOSE i \in 1..Len(s) :
                          /\ s[i] = "-"
                          /\ \A j \in 1..(i - 1) : s[j] # "-") - 1)
    ELSE s

\* "if release_date: try: year = int(release_date.split("-")[0]) ... except
\* (ValueError, AttributeError): pass": the year, and 0 for a date that is
\* missing or whose first part int() refuses
release_year(release_date) ==
    LET part == FirstDashPart(release_date)
    IN  IF release_date = << >> THEN 0
        ELSE IF part # << >> /\ \A i \in 1..Len(part) : part[i] \in DigitChars
        THEN ParseInt(part)
        ELSE 0

\* requests, titles and synopses that are scored
SQ_heat_heat == <<"H", "e", "a", "t", " ", "h", "e", "a", "t", " ", "a", "t", " ", "c", "o", "m", "e", "d", "y">>
SO_comedy == <<"A", " ", "c", "o", "m", "e", "d", "y", " ", "w", "i", "t", "h", " ", "h", "e", "a", "t">>

ScoreQueries == {TextOf(1), TextOf(2), SQ_heat_heat}
ScoreVoteCounts == {999, 1000, 1999, 2000, 4999, 5000, 9999, 10000}
ScorePopularities == {4, 5, 49, 50, 99, 100}

score_movie_call ==
    /\ args.fn = "score_movie"
    /\ result = Pending
    /\ result' = Returned(score_movie(
                     [vote_average |-> args.vote_average,
                      vote_count |-> args.vote_count,
                      popularity |-> args.popularity,
                      year |-> release_year(args.release_date),
                      title |-> args.title, overview |-> args.overview],
                     args.query, args.from_actor_search, args.current_year))
    /\ UNCHANGED <<args, movie_cache, cache_op, session_vars, task_vars>>

InitScore ==
    /\ SessionInit
    /\ movie_cache = << >>
    /\ cache_op = [op |-> "none", key |-> 0]
    /\ TasksIdle
    /\ \E vote_average \in {0, 73}, vote_count \in ScoreVoteCounts,
          popularity \in ScorePopularities, release_date \in ReleaseDates,
          current_year \in ClockYears, from_actor_search \in BOOLEAN,
          query \in ScoreQueries, title \in {T_heat, T_comedy_night},
          overview \in {<< >>, SO_comedy} :
           args = [fn |-> "score_movie", vote_average |-> vote_average,
                   vote_count |-> vote_count, popularity |-> popularity,
                   release_date |-> release_date,
                   current_year |-> current_year,
                   from_actor_search |-> from_actor_search,
                   query |-> query, title |-> title, overview |-> overview]
    /\ result = Pending

NextScore == score_movie_call

SpecScore == InitScore /\ [][NextScore]_vars

\* the year a release date starts with, where it starts with four digits
DateYear ==
    IF Len(args.release_date) >= 4
          /\ \A i \in 1..4 : args.release_date[i] \in DigitChars
    THEN 1000 * DigitValue(args.release_date[1])
           + 100 * DigitValue(args.release_date[2])
           + 10 * DigitValue(args.release_date[3])
           + DigitValue(args.release_date[4])
    ELSE 0

\* the distinct words of the request longer than 2 characters found in text
WordsFound(text) ==
    {w \in Range(Split(Lower(args.query))) :
        Len(w) > 2 /\ Contains(Lower(text), w)}

\* the parts of the score, in tenths
CreditsPart == IF args.from_actor_search THEN 500 ELSE 0

VotePart ==
    CASE args.vote_count >= 10000 -> 150
      [] args.vote_count \in 5000..9999 -> 100
      [] args.vote_count \in 2000..4999 -> 60
      [] args.vote_count \in 1000..1999 -> 0
      [] args.vote_count < 1000 -> 0 - 50

PopularityPart ==
    CASE args.popularity >= 100 -> 120
      [] args.popularity \in 50..99 -> 80
      [] args.popularity \in 5..49 -> 0
      [] args.popularity < 5 -> 0 - 30

RecencyPart ==
    IF DateYear = 0 THEN 0
    ELSE (CASE DateYear < 2010 -> 0 - 150
            [] DateYear \in 2010..2019 -> 0
            [] DateYear >= 2020 -> Min((DateYear - 2020) * 20, 100))
         + (IF DateYear >= args.current_year - 2 THEN 80 ELSE 0)

\* C31: score_movie returns the sum of 50 for a candidate from person
\* credits, 6 times the rating, the value of the vote-count tier, the value of
\* the popularity tier, the recency value (0 for a missing or unparsable
\* date), 10 per distinct word of the request longer than 2 characters found
\* in the title and 3 per such word found in the synopsis.  Scores are in
\* tenths.
C31_ScoreIsSumOfParts ==
    (args.fn = "score_movie" /\ result.status = "returned") =>
        result.value = CreditsPart + 6 * args.vote_average + VotePart
                         + PopularityPart + RecencyPart
                         + 100 * Cardinality(WordsFound(args.title))
                         + 30 * Cardinality(WordsFound(args.overview))

\* a request that names "heat" twice, scored against the title "Heat" and a
\* synopsis with two of its words, for a film of 2026 from person credits
C31_Witness ==
    /\ args.fn = "score_movie"
    /\ result.status = "returned"
    /\ args.query = SQ_heat_heat
    /\ args.title = T_heat
    /\ args.overview = SO_comedy
    /\ args.release_date = R_2026
    /\ args.from_actor_search
    /\ args.vote_count = 5000
    /\ args.popularity = 4
    /\ args.vote_average = 73
    /\ result.value = 500 + 438 + 100 - 30 + 100 + 80 + 100 + 60

(***************************************************************************)
(* The detail cache with the history of its keys.  args records, for the   *)
(* properties only, when each key the cache holds was inserted (stamp:     *)
(* the number of the insertion that put the key into the dict; the cache   *)
(* starts as the dict after the insertions of 1..n), which keys were read  *)
(* while the cache held them and which were stored again.                  *)
(***************************************************************************)

MaxInsertions == 2

\* the history after the call on movie_id
recorded(movie_id, reading) ==
    LET held == movie_id \in Range(movie_cache)
    IN  args' = [args EXCEPT
                   !.clock = IF held \/ movie_id \notin Range(movie_cache')
                             THEN @ ELSE @ + 1,
                   !.stamp = [k \in Range(movie_cache') |->
                                 IF k \in Range(movie_cache) THEN args.stamp[k]
                                 ELSE args.clock + 1],
                   !.read = IF held /\ reading THEN @ \cup {movie_id} ELSE @,
                   !.stored_again =
                       IF held /\ ~reading THEN @ \cup {movie_id} ELSE @]

\* the calls that store a key the cache does not hold are counted
insertions_left(movie_id) ==
    \/ movie_id \in Range(movie_cache)
    \/ args.clock < args.first_clock + MaxInsertions

get_cached_movie_recorded ==
    \E movie_id \in CacheKeys :
        /\ get_cached_movie_of(movie_id)
        /\ recorded(movie_id, TRUE)

set_cached_movie_recorded ==
    \E movie_id \in CacheKeys :
        /\ insertions_left(movie_id)
        /\ set_cached_movie_of(movie_id)
        /\ recorded(movie_id, FALSE)

get_movie_details_recorded ==
    \E movie_id \in CacheKeys, fetched \in BOOLEAN :
        /\ insertions_left(movie_id)
        /\ get_movie_details_of(movie_id, fetched)
        /\ recorded(movie_id, TRUE)

InitOrder ==
    /\ SessionInit
    /\ \E n \in (MAX_CACHE_SIZE - 1)..MAX_CACHE_SIZE :
        /\ movie_cache = FirstKeys(n)
        /\ args = [fn |-> "cache", first_clock |-> n, clock |-> n,
                   stamp |-> [k \in 1..n |-> k], read |-> {},
                   stored_again |-> {}]
    /\ cache_op = [op |-> "none", key |-> 0]
    /\ TasksIdle
    /\ result = [status |-> "none"]

NextOrder ==
    \/ get_cached_movie_recorded
    \/ set_cached_movie_recorded
    \/ get_movie_details_recorded

SpecOrder == InitOrder /\ [][NextOrder]_vars

\* the key the next overflow evicts
EvictedNext == movie_cache[1]

\* C32: the cache evicts in the order of first insertion and not of use:
\* the entry evicted on overflow is the one whose key was inserted earliest
\* among the keys present, and a read by get_cached_movie or a store on a key
\* that is present does not change which entry is evicted next.
C32_EvictionByInsertionOrder ==
    /\ []( (args.fn = "cache" /\ movie_cache # << >>) =>
             \A k \in Range(movie_cache) :
                 args.stamp[EvictedNext] <= args.stamp[k] )
    /\ [][ args.fn = "cache" =>
             /\ cache_op'.key \in Range(movie_cache) =>
                    movie_cache' = movie_cache
             /\ Range(movie_cache) \ Range(movie_cache') \subseteq
                    {EvictedNext} ]_vars

\* the first key was read and stored again while the cache held it, and the
\* overflow that followed evicted it all the same: the second key is next
C32_Witness ==
    /\ args.fn = "cache"
    /\ 1 \in args.read
    /\ 1 \in args.stored_again
    /\ 1 \notin Range(movie_cache)
    /\ Len(movie_cache) = MAX_CACHE_SIZE
    /\ EvictedNext = 2

(***************************************************************************)
(* The detail view of a candidate the cache does not hold, fetched by      *)
(* fast_movie_search (fetch_poster_and_verify_movie, then                  *)
(* fetch_movie_videos) or by the agent's tool get_movie_details (both      *)
(* requests in one asyncio.gather under asyncio.wait_for).                 *)
(***************************************************************************)

\* what a request to the catalog ends in: an answer with status 200, an
\* exception of the client, an answer with another status, or no answer
\* within the time allowed
CallOutcomes == {"ok", "error", "non200", "timeout"}

\* the videos answer with status 200 holds a YouTube trailer or none
VideoOutcomes == {"trailer", "no_trailer", "error", "non200", "timeout"}

\* which timer ends a request that is not answered in time: the client's own
\* timeout, which raises inside the request, or the wait_for around the calls
Timers == {"client", "wait_for"}

TrailerUrl == "https://www.youtube.com/watch?v=key"

\* fetch_movie_videos: the trailer of a 200 answer that has one, "" otherwise
\* and after any exception
fetch_movie_videos(videos) == IF videos = "trailer" THEN TrailerUrl ELSE ""

NoDetailView == [returned |-> FALSE, stored |-> FALSE, trailer_url |-> ""]

\* fast_movie_search from "Fetch movie details" on, for a head the cache does
\* not hold
fast_movie_search_detail(details, videos, timer) ==
    IF details # "ok" THEN NoDetailView
    ELSE [returned |-> TRUE, stored |-> TRUE,
          trailer_url |-> fetch_movie_videos(videos)]

\* get_movie_details after the cache check: wait_for(gather(details, videos,
\* return_exceptions=True), timeout=1.0) raises when either request is still
\* running at its timeout, the exception of the details request is raised
\* again and raise_for_status refuses another status; the exception or the
\* status of the videos request leaves trailer_url empty
get_movie_details_detail(details, videos, timer) ==
    LET gather_timed_out ==
            timer = "wait_for" /\ (details = "timeout" \/ videos = "timeout")
    IN  IF gather_timed_out \/ details # "ok" THEN NoDetailView
        ELSE [returned |-> TRUE, stored |-> TRUE,
              trailer_url |-> fetch_movie_videos(videos)]

detail_view(via, details, videos, timer) ==
    IF via = "fast_movie_search"
    THEN fast_movie_search_detail(details, videos, timer)
    ELSE get_movie_details_detail(details, videos, timer)

detail_view_call ==
    /\ args.fn = "detail_view"
    /\ result = Pending
    /\ LET view == detail_view(args.via, args.details, args.videos, args.timer)
       IN  /\ result' = Returned(view)
           /\ movie_cache' =
                  IF view.stored
                  THEN cache_insert(movie_cache, args.movie_id, MAX_CACHE_SIZE)
                  ELSE movie_cache
           /\ cache_op' = [op |-> IF view.stored THEN "insert" ELSE "error",
                           key |-> args.movie_id]
    /\ UNCHANGED <<args, session_vars, task_vars>>

InitDetail ==
    /\ SessionInit
    /\ cache_op = [op |-> "none", key |-> 0]
    /\ TasksIdle
    /\ \E n \in {0, 1, MAX_CACHE_SIZE - 1, MAX_CACHE_SIZE},
          via \in {"fast_movie_search", "get_movie_details"},
          details \in CallOutcomes, videos \in VideoOutcomes,
          timer \in Timers :
        \E movie_id \in CacheKeys \ (1..n) :
            /\ movie_cache = FirstKeys(n)
            /\ args = [fn |-> "detail_view", via |-> via, movie_id |-> movie_id,
                       details |-> details, videos |-> videos,
                       timer |-> timer, cache_before |-> n]
    /\ result = Pending

NextDetail == detail_view_call

SpecDetail == InitDetail /\ [][NextDetail]_vars

\* C33: when the detail view of a candidate is fetched, a failure of the
\* videos call (error, other status than 200, timeout) gives an empty trailer
\* reference and the candidate is returned with its details all the same,
\* and a failure of the details call gives no candidate and leaves the cache
\* as it was.
C33_VideosFailureKeepsCandidate ==
    (args.fn = "detail_view" /\ result.status = "returned") =>
        /\ (args.details = "ok"
              /\ args.videos \in {"error", "non200", "timeout"}) =>
                 /\ result.value.returned
                 /\ result.value.trailer_url = ""
                 /\ args.movie_id \in Range(movie_cache)
        /\ args.details # "ok" =>
                 /\ ~result.value.returned
                 /\ movie_cache = FirstKeys(args.cache_before)

(***************************************************************************)
(* The photo of send_movie_suggestion.  The movie it is handed carries the *)
(* poster_url that the code which built the record stored; the function    *)
(* asks for the detail record again and falls back to the stored value     *)
(* when that request gives no poster.                                      *)
(***************************************************************************)

\* where the movie records that reach send_movie_suggestion are built
MovieSources ==
    {"fast_head", "fast_alternate", "agent", "discover", "prefetch"}

\* values of poster_path in the catalog's records
PhotoPaths ==
    {<< >>, P_slash \o S_abc123 \o E_jpg, S_abc123 \o E_jpg,
     P_slash \o S_dir \o E_JPG, P_slash \o S_a \o E_png,
     P_slash \o S_abc123 \o P_slash \o E_jpg, P_http \o S_evil \o E_jpg,
     P_slash \o S_abc123 \o E_gif}

\* as stored_poster_url, with the catalog's value stored as it came
stored_poster_url_as_given(source, poster_path) == poster_path

\* the poster_url of the record: validate_and_build_poster_url(poster_path),
\* for the head of a search, a movie of the agent, of the discover fallback
\* and of a prefetch through fetch_poster_and_verify_movie, for an alternate
\* of a person query directly
stored_poster_url(source, poster_path) ==
    validate_and_build_poster_url(poster_path)

\* the agent's and the discover branches skip a movie without a poster
record_is_built(source, poster_url) ==
    source \in {"agent", "discover"} => poster_url # << >>

\* poster_url.split('/')[-1] if '/' in poster_url else ''
LastSegment(poster_url) ==
    IF \E i \in 1..Len(poster_url) : poster_url[i] = "/"
    THEN SubSeq(poster_url,
                1 + (CHOOSE i \in 1..Len(poster_url) :
                        /\ poster_url[i] = "/"
                        /\ \A j \in (i + 1)..Len(poster_url) :
                               poster_url[j] # "/"),
                Len(poster_url))
    ELSE << >>

\* send_movie_suggestion from "Always fetch poster fresh" to send_photo: the
\* photo it sends, << >> when it sends text only
photo_of(stored, fresh_ok, fresh_path) ==
    LET fetched == IF fresh_ok THEN validate_and_build_poster_url(fresh_path)
                   ELSE << >>
        reused == IF stored # << >>
                     /\ validate_and_build_poster_url(LastSegment(stored)) = << >>
                  THEN << >> ELSE stored
    IN  IF fetched # << >> THEN fetched ELSE reused

send_photo_call ==
    /\ args.fn = "send_photo"
    /\ result = Pending
    /\ result' = Returned(photo_of(args.movie.poster_url, args.fresh_ok,
                                   args.fresh_path))
    /\ UNCHANGED <<args, movie_cache, cache_op, session_vars, task_vars>>

InitPhoto ==
    /\ SessionInit
    /\ movie_cache = << >>
    /\ cache_op = [op |-> "none", key |-> 0]
    /\ TasksIdle
    /\ \E source \in MovieSources, stored_path \in PhotoPaths,
          fresh_ok \in BOOLEAN, fresh_path \in PhotoPaths :
        /\ record_is_built(source, stored_poster_url(source, stored_path))
        /\ args = [fn |-> "send_photo", source |-> source,
                   stored_path |-> stored_path,
                   movie |-> [poster_url |->
                                  stored_poster_url(source, stored_path)],
                   fresh_ok |-> fresh_ok, fresh_path |-> fresh_path]
    /\ result = Pending

NextPhoto == send_photo_call

SpecPhoto == InitPhoto /\ [][NextPhoto]_vars

\* the results of validate_and_build_poster_url that are not empty, for the
\* paths of the two records
ValidatedPosters ==
    {validate_and_build_poster_url(args.stored_path),
     validate_and_build_poster_url(args.fresh_path)} \ {<< >>}

\* C37: every poster URL that send_movie_suggestion sends as a photo is a
\* result of validate_and_build_poster_url that is not empty, or there is no
\* photo and the text is sent alone; this also when the detail request gives
\* no poster and the poster_url stored in the candidate is used.
C37_PhotoIsValidated ==
    (args.fn = "send_photo" /\ result.status = "returned") =>
        \/ result.value = << >>
        \/ result.value \in ValidatedPosters

\* the detail request failed and the stored URL of '/a_b-c/D4.JPG' was sent
C37_Witness ==
    /\ args.fn = "send_photo"
    /\ result.status = "returned"
    /\ ~args.fresh_ok
    /\ args.stored_path = P_slash \o S_dir \o E_JPG
    /\ result.value = TMDB_IMAGE_BASE_URL \o P_slash \o S_dir \o E_JPG

TypeOK ==
    /\ original_prompt \in 0..Len(Texts)
    /\ movie_queue \in Seq(Ids)
    /\ suggested_movies \subseteq Ids
    /\ prefetched_next_movie \in {0} \cup Ids
    /\ prefetched_query \in 0..Len(Texts)
    /\ watching \subseteq Ids
    /\ tasks \subseteq TaskKeys
    /\ jobs \subseteq JobKeys
    /\ pc \in {"idle", "retrieving"}

====
